---------------------------- MODULE Spec2Model ----------------------------
(***************************************************************************)
(* A model of the PhysicsFS ZIP archiver, src/archivers/zip.c.             *)
(*                                                                         *)
(* The module holds three state machines over one set of variables:        *)
(*   SpecFile     the per-open-file reader (ZIP_read, ZIP_seek, ZIP_tell,  *)
(*                ZIP_eof, ZIP_fileLength, ZIP_fileClose, ZIP_openRead on  *)
(*                entries that are already resolved);                      *)
(*   SpecResolve  the lazy resolver (zip_resolve, zip_parse_local,         *)
(*                zip_resolve_symlink, zip_expand_symlink_path,            *)
(*                zip_follow_symlink) driven by ZIP_openRead, one step of  *)
(*                the C code per action, with an explicit call stack;      *)
(*   SpecDir      the directory queries (zip_find_start_of_dir,            *)
(*                ZIP_enumerateFiles, ZIP_isDirectory, zip_find_entry).    *)
(*                                                                         *)
(* C strings are sequences of character codes; a char buffer is the        *)
(* sequence of all its bytes, terminator and stale bytes included, and a   *)
(* char pointer is a 0-based index into it.                                *)
(***************************************************************************)
EXTENDS Integers, Sequences, FiniteSets, TLC

(***************************************************************************)
(* Bounds of the model.                                                    *)
(***************************************************************************)
\* Largest objSize a caller passes to ZIP_read.
MaxObjSize == 2
\* Largest objCount a caller passes to ZIP_read.
MaxObjCount == 3
\* Size of the compressed-read buffer (ZIP_READBUFSIZE, 16 KiB in the source),
\* scaled so that one entry needs more than one refill.
ReadBufSize == 2
\* Size of the throw-away buffer of ZIP_seek (512 in the source), scaled so
\* that one seek needs more than one ZIP_read.
SeekBufSize == 2
\* Largest offset a caller passes to ZIP_seek: one past the longest entry.
MaxSeekOffset == 5
\* Number of array elements past the end of info->entries that can be read
\* before the read leaves the memory of the process.
MaxOverrun == 1
\* Stand-in for 2^32, the width of PHYSFS_uint32 (TLC's integers are 32-bit
\* signed); every size and offset of the model is far below it.
WordMod == 65536

(***************************************************************************)
(* Program constants.                                                      *)
(***************************************************************************)
COMPMETH_NONE == 0
\* Fixed part of a local file header: entry->offset += fnamelen + extralen + 30.
LOCAL_HEADER_FIXED == 30
\* Character codes.
NUL == 0
DOT == 46
SLASH == 47
BACKSLASH == 92

\* ZipResolveType
ZIP_UNRESOLVED_FILE == "ZIP_UNRESOLVED_FILE"
ZIP_UNRESOLVED_SYMLINK == "ZIP_UNRESOLVED_SYMLINK"
ZIP_RESOLVING == "ZIP_RESOLVING"
ZIP_RESOLVED == "ZIP_RESOLVED"
ZIP_BROKEN_FILE == "ZIP_BROKEN_FILE"
ZIP_BROKEN_SYMLINK == "ZIP_BROKEN_SYMLINK"

\* Error strings handed to __PHYSFS_setError; NoError: the call set none.
NoError == "none"
ERR_PAST_EOF == "ERR_PAST_EOF"
ERR_CORRUPTED == "ERR_CORRUPTED"
ERR_SYMLINK_LOOP == "ERR_SYMLINK_LOOP"
ERR_NO_SUCH_FILE == "ERR_NO_SUCH_FILE"
ERR_NOT_A_DIR == "ERR_NOT_A_DIR"
ERR_IO == "ERR_IO"
ERR_ZLIB == "ERR_ZLIB"

\* zlib return codes.
Z_OK == "Z_OK"
Z_STREAM_END == "Z_STREAM_END"
Z_BUF_ERROR == "Z_BUF_ERROR"
Z_DATA_ERROR == "Z_DATA_ERROR"

\* NULL for ZIPentry pointers: entries are named by their index 1..entryCount.
NULL == 0

VARIABLES
    image,      \* the archive file on disk: never written
    entries,    \* ZIPinfo.entries, the entry table
    finfo,      \* the ZIPfileinfo of the open file, or NoFile
    hist,       \* the last two file operations, older first
    seeked,     \* a ZIP_seek was called on the open file

    stack,      \* call frames of the running resolution, innermost last
    call,       \* the public operation that is running, or Idle
    result,     \* what the last finished public operation returned

    dirq,       \* the running or finished directory query

    heap,       \* what malloc and the platform layer gave out and took back
    peer,       \* the ZIPfileinfo of a second open file, or NoFile
    handles     \* the platform's open handles on the archive: their cursors

fileVars == <<finfo, hist, seeked>>
resVars == <<stack, call, result>>
mountVars == <<heap, peer, handles>>
vars == <<image, entries, finfo, hist, seeked, stack, call, result, dirq,
          heap, peer, handles>>

\* No allocation was made: live are the blocks held, twice the blocks given
\* back when they were not held.
EmptyHeap == [live |-> {}, twice |-> {}]

\* malloc and free, and the platform's open and close of a handle: a block
\* is named by its kind and a number.
Malloc(h, b) == [h EXCEPT !.live = @ \cup {b}]
Free(h, b) ==
    IF b \in h.live
    THEN [h EXCEPT !.live = @ \ {b}]
    ELSE [h EXCEPT !.twice = @ \cup {b}]

\* No platform handle is open: of is the handle of finfo and of peer.
NoHandles == [pos |-> <<0, 0>>, of |-> <<0, 0>>]

Min(a, b) == IF a < b THEN a ELSE b
U32(x) == x % WordMod
Zeros(n) == [i \in 1..n |-> 0]
\* s[from..to], 1-based, empty when to < from.
Slice(s, from, to) == [i \in 1..(IF to < from THEN 0 ELSE to - from + 1) |-> s[from + i - 1]]


(***************************************************************************)
(* The host I/O layer (__PHYSFS_platformRead / Seek on a file handle). Its *)
(* code is not part of zip.c; it is modelled from the ByteSource contract: *)
(* read(buf, itemSize, itemCount) returns the number of whole items read   *)
(* and leaves the cursor on an item boundary.                              *)
(***************************************************************************)
\* Reading count items of size bytes with the cursor at pos.
PlatformRead(pos, size, count) ==
    LET max == size * count
        left == IF pos < image.len THEN image.len - pos ELSE 0
        rc == Min(max, left)
        n == IF size = 0 THEN 0 ELSE rc \div size
    IN  [pos |-> pos + n * size, n |-> n,
         bytes |-> Slice(image.data, pos + 1, pos + n * size)]

(***************************************************************************)
(* The inflater (zlib's inflateInit2 / inflate). Its code is not part of   *)
(* zip.c; it is modelled as a streaming run-length decoder with zlib's     *)
(* interface: a token t > 0 stands for t \div 16 copies of the byte        *)
(* t % 16, the token 0 ends the stream. inflate consumes input and writes  *)
(* at most avail_out bytes; it returns Z_STREAM_END once the end token is  *)
(* consumed, Z_BUF_ERROR when it can make no progress, Z_DATA_ERROR on a   *)
(* malformed token and Z_OK otherwise.                                     *)
(***************************************************************************)
\* memset(&stream, 0, ...) followed by inflateInit2(&stream, -MAX_WBITS).
FreshStream == [inbuf |-> <<>>, val |-> 0, cnt |-> 0, done |-> FALSE, total_out |-> 0]

RECURSIVE InflateRun(_, _, _, _)
InflateRun(s, room, out, progress) ==
    IF s.done THEN [s |-> s, out |-> out, rc |-> Z_STREAM_END]
    ELSE IF s.cnt > 0 THEN
        IF room = 0
        THEN [s |-> s, out |-> out, rc |-> IF progress THEN Z_OK ELSE Z_BUF_ERROR]
        ELSE LET n == Min(s.cnt, room)
             IN  InflateRun([s EXCEPT !.cnt = @ - n, !.total_out = @ + n],
                            room - n, out \o [i \in 1..n |-> s.val], TRUE)
    ELSE IF s.inbuf = <<>>
        THEN [s |-> s, out |-> out, rc |-> IF progress THEN Z_OK ELSE Z_BUF_ERROR]
    ELSE LET t == Head(s.inbuf)
         IN  IF t = 0
             THEN [s |-> [s EXCEPT !.inbuf = Tail(@), !.done = TRUE], out |-> out,
                   rc |-> Z_STREAM_END]
             ELSE IF t \div 16 = 0
             THEN [s |-> s, out |-> out, rc |-> Z_DATA_ERROR]
             ELSE InflateRun([s EXCEPT !.inbuf = Tail(@), !.val = t % 16,
                                       !.cnt = t \div 16],
                             room, out, TRUE)

Inflate(s, avail_out) == InflateRun(s, avail_out, <<>>, FALSE)

(***************************************************************************)
(* The open file.                                                          *)
(***************************************************************************)
\* No file is open. The fields are those of an open file, so that the two
\* compare.
NoFile == [open |-> FALSE, entry |-> NULL, hpos |-> 0, compressed_position |-> 0,
           uncompressed_position |-> 0, hasBuffer |-> FALSE, stream |-> FreshStream]

\* ZIP_openRead from the memset of finfo on, for a handle that
\* zip_get_file_handle has positioned: e is the entry the name resolved to.
OpenFileOn(e) ==
    LET target == IF entries[e].symlink # NULL THEN entries[e].symlink ELSE e
        offset == entries[target].offset
    IN  [open |-> TRUE, entry |-> target, hpos |-> offset,
         compressed_position |-> 0, uncompressed_position |-> 0,
         hasBuffer |-> entries[target].compression_method # COMPMETH_NONE,
         stream |-> FreshStream]

\* Each helper below takes the value of one C local as a parameter, so that
\* the value is written once where the C code computes it.

\* The refill of ZIP_read: br bytes were read into finfo->buffer.
Refill(f, rd) ==
    [f EXCEPT !.hpos = rd.pos, !.compressed_position = U32(@ + rd.n),
              !.stream.inbuf = rd.bytes]

\* The while loop of ZIP_read for a compressed entry. retval counts bytes.
RECURSIVE InflateLoop(_, _, _, _, _)

\* After inflate returned r: retval += total_out - before; break unless Z_OK.
AfterInflate(f, retval, maxread, avail_out, out, r) ==
    IF r.rc # Z_OK
    THEN [f |-> [f EXCEPT !.stream = r.s], retval |-> retval + Len(r.out),
          out |-> out \o r.out,
          err |-> IF r.rc = Z_STREAM_END THEN NoError ELSE ERR_ZLIB]
    ELSE InflateLoop([f EXCEPT !.stream = r.s], retval + Len(r.out), maxread,
                     avail_out - Len(r.out), out \o r.out)

CallInflate(f, retval, maxread, avail_out, out) ==
    AfterInflate(f, retval, maxread, avail_out, out, Inflate(f.stream, avail_out))

\* After __PHYSFS_platformRead(handle, buffer, 1, br) returned rd: break on
\* br <= 0.
AfterRefill(f, retval, maxread, avail_out, out, rd) ==
    IF rd.n <= 0
    THEN [f |-> [f EXCEPT !.hpos = rd.pos], retval |-> retval, out |-> out,
          err |-> ERR_IO]
    ELSE CallInflate(Refill(f, rd), retval, maxread, avail_out, out)

\* br = compressed_size - compressed_position, cut to the buffer size.
InflateLoopBody(f, retval, maxread, avail_out, out, br) ==
    IF f.stream.inbuf = <<>> /\ br > 0
    THEN AfterRefill(f, retval, maxread, avail_out, out,
                     PlatformRead(f.hpos, 1, Min(br, ReadBufSize)))
    ELSE CallInflate(f, retval, maxread, avail_out, out)

InflateLoop(f, retval, maxread, avail_out, out) ==
    IF ~(retval < maxread)
    THEN [f |-> f, retval |-> retval, out |-> out, err |-> NoError]
    ELSE InflateLoopBody(f, retval, maxread, avail_out, out,
             U32(entries[f.entry].compressed_size - f.compressed_position))

\* The byte count a read past the end is cut down to: whole objects only.
ReadClampNone(avail, maxread, objSize) == maxread
ReadClamp(avail, maxread, objSize) == avail - (avail % objSize)

\* The uncompressed branch of ZIP_read: rd is what __PHYSFS_platformRead
\* returned.
StoreRead(f, cnt, rd) ==
    [f |-> [f EXCEPT !.hpos = rd.pos], ret |-> rd.n, bytes |-> rd.bytes,
     err |-> IF rd.n < cnt THEN ERR_IO ELSE NoError]

\* The compressed branch of ZIP_read: l is what the loop left; retval /= objSize.
DeflateRead(objSize, l) ==
    [f |-> l.f, ret |-> l.retval \div objSize,
     bytes |-> Slice(l.out, 1, (l.retval \div objSize) * objSize),
     err |-> l.err]

\* The end of ZIP_read: uncompressed_position += retval * objSize if retval > 0.
ReadDone(objSize, clamp, r) ==
    [f |-> IF r.ret > 0
           THEN [r.f EXCEPT !.uncompressed_position = U32(@ + r.ret * objSize)]
           ELSE r.f,
     ret |-> r.ret,
     err |-> IF r.err # NoError THEN r.err
             ELSE IF clamp THEN ERR_PAST_EOF ELSE NoError,
     bytes |-> r.bytes]

\* ZIP_read once maxread and objCount are settled.
ReadObjects(f, objSize, objCount, maxread, clamp) ==
    IF clamp /\ objCount = 0
    THEN [f |-> f, ret |-> 0, err |-> ERR_PAST_EOF, bytes |-> <<>>]
    ELSE IF entries[f.entry].compression_method = COMPMETH_NONE
    THEN ReadDone(objSize, clamp,
             StoreRead(f, objCount, PlatformRead(f.hpos, objSize, objCount)))
    ELSE ReadDone(objSize, clamp,
             DeflateRead(objSize,
                 InflateLoop(f, 0, maxread, objSize * objCount, <<>>)))

\* ZIP_read with avail = uncompressed_size - uncompressed_position.
ReadAvail(f, objSize, objCount, maxread, avail) ==
    IF avail < maxread
    THEN ReadObjects(f, objSize, ReadClamp(avail, maxread, objSize) \div objSize,
                     ReadClamp(avail, maxread, objSize), TRUE)
    ELSE ReadObjects(f, objSize, objCount, maxread, FALSE)

\* ZIP_read: the new file state, the returned object count, the error the
\* call set, and the bytes of the whole objects it delivered.
ZIP_read(f, objSize, objCount) ==
    IF objSize * objCount = 0
    THEN [f |-> f, ret |-> 0, err |-> NoError, bytes |-> <<>>]
    ELSE ReadAvail(f, objSize, objCount, objSize * objCount,
             U32(entries[f.entry].uncompressed_size - f.uncompressed_position))

ZIP_eof(f) == f.uncompressed_position >= entries[f.entry].uncompressed_size

ZIP_tell(f) == f.uncompressed_position

ZIP_fileLength(f) == entries[f.entry].uncompressed_size

\* The position ZIP_seek records for an uncompressed entry.
StoreSeekPosition(offset, newpos) == newpos

\* The rewind of ZIP_seek before a backward seek in a compressed entry.
SeekRewindNoPlatformSeek(f) ==
    [f EXCEPT !.stream = FreshStream,
              !.uncompressed_position = 0, !.compressed_position = 0]
SeekRewindKeepCompressedPosition(f) ==
    [f EXCEPT !.stream = FreshStream, !.hpos = entries[f.entry].offset,
              !.uncompressed_position = 0]
SeekRewind(f) ==
    [f EXCEPT !.stream = FreshStream, !.hpos = entries[f.entry].offset,
              !.uncompressed_position = 0, !.compressed_position = 0]

\* The while loop of ZIP_seek: ZIP_read into buf[SeekBufSize] up to offset.
RECURSIVE SeekLoop(_, _)

\* After ZIP_read(handle, buf, maxread, 1) returned r.
AfterSeekRead(offset, r) ==
    IF r.ret # 1 THEN [f |-> r.f, ok |-> FALSE, err |-> r.err]
    ELSE SeekLoop(r.f, offset)

SeekLoop(f, offset) ==
    IF f.uncompressed_position = offset THEN [f |-> f, ok |-> TRUE, err |-> NoError]
    ELSE AfterSeekRead(offset,
             ZIP_read(f, Min(U32(offset - f.uncompressed_position), SeekBufSize), 1))

ZIP_seek(f, offset) ==
    IF offset > entries[f.entry].uncompressed_size
    THEN [f |-> f, ok |-> FALSE, err |-> ERR_PAST_EOF]
    ELSE IF entries[f.entry].compression_method = COMPMETH_NONE
    THEN [f |-> [f EXCEPT !.hpos = offset + entries[f.entry].offset,
                          !.uncompressed_position =
                              U32(StoreSeekPosition(offset,
                                      offset + entries[f.entry].offset))],
          ok |-> TRUE, err |-> NoError]
    ELSE SeekLoop(IF offset < f.uncompressed_position THEN SeekRewind(f) ELSE f,
                  offset)

(***************************************************************************)
(* Entries and archive images.                                             *)
(***************************************************************************)
\* A ZIPentry as zip_load_entry leaves it: offset is the local header's.
MkEntry(name, resolved, offset, method, csize, usize) ==
    [name |-> name, symlink |-> NULL, resolved |-> resolved, offset |-> offset,
     version |-> 768, version_needed |-> 20, compression_method |-> method,
     crc |-> 1, compressed_size |-> csize, uncompressed_size |-> usize,
     last_mod_time |-> 0]

\* The local file header that matches entry e, with the given name and
\* extra-field lengths.
LocalHeaderOf(e, fnamelen, extralen) ==
    [sig_ok |-> TRUE, version_needed |-> e.version_needed,
     compression_method |-> e.compression_method, crc |-> e.crc,
     compressed_size |-> e.compressed_size,
     uncompressed_size |-> e.uncompressed_size,
     fnamelen |-> fnamelen, extralen |-> extralen]

\* The entry after a successful zip_resolve of a regular file.
ResolvedFile(e, fnamelen, extralen) ==
    [e EXCEPT !.resolved = ZIP_RESOLVED,
              !.offset = @ + fnamelen + extralen + LOCAL_HEADER_FIXED]

\* The archive of SpecFile: "s" (stored, bytes 11 12 13) and "z" (deflated,
\* bytes 7 7 8 8 from the tokens 39 40 0), followed by four bytes that belong
\* to neither.
FileEntryS == MkEntry(<<115>>, ZIP_UNRESOLVED_FILE, 0, COMPMETH_NONE, 3, 3)
FileEntryZ == MkEntry(<<122>>, ZIP_UNRESOLVED_FILE, 34, 8, 3, 4)
FileImage ==
    [len |-> 72,
     hdr |-> (0 :> LocalHeaderOf(FileEntryS, 1, 0)) @@ (34 :> LocalHeaderOf(FileEntryZ, 1, 0)),
     data |-> Zeros(31) \o <<11, 12, 13>> \o Zeros(31) \o <<39, 40, 0>>
              \o <<90, 91, 92, 93>>]
FileEntries == <<ResolvedFile(FileEntryS, 1, 0), ResolvedFile(FileEntryZ, 1, 0)>>

\* The uncompressed bytes of entry e of the archive, by definition of the
\* two formats (what a correct reader delivers).
RECURSIVE Expand(_)
Expand(tokens) ==
    IF tokens = <<>> \/ Head(tokens) = 0 THEN <<>>
    ELSE [i \in 1..(Head(tokens) \div 16) |-> Head(tokens) % 16] \o Expand(Tail(tokens))

Content(e) ==
    LET raw == Slice(image.data, entries[e].offset + 1,
                     entries[e].offset + entries[e].compressed_size)
    IN  IF entries[e].compression_method = COMPMETH_NONE THEN raw ELSE Expand(raw)

(***************************************************************************)
(* SpecFile: the operations on one open file.                              *)
(***************************************************************************)
Idle == [op |-> "idle"]
NoResult == [op |-> "none"]
\* A directory query before its first step: pc is "loop" inside the loop of
\* ZIP_enumerateFiles, "done" once the query has returned, "crashed" when
\* the process died in it.
Query(op, dirname, omit) ==
    [op |-> op, dirname |-> dirname, omit |-> omit, dlen |-> 0, i |-> 0,
     out |-> <<>>, pc |-> "done", ub |-> FALSE, ret |-> 0, err |-> NoError]
NoQuery == Query("none", <<>>, FALSE)

\* The history keeps the last two operations.
Push(h, rec) == IF Len(h) < 2 THEN Append(h, rec) ELSE Append(Tail(h), rec)

InitFile ==
    /\ image = FileImage
    /\ entries = FileEntries
    /\ finfo = NoFile
    /\ hist = <<>>
    /\ seeked = FALSE
    /\ stack = <<>>
    /\ call = Idle
    /\ result = NoResult
    /\ dirq = NoQuery
    /\ heap = EmptyHeap
    /\ peer = NoFile
    /\ handles = NoHandles

\* The blocks of the n-th open file: the platform handle, the FileHandle,
\* the ZIPfileinfo, the state inflateInit2 allocates and finfo->buffer.
BlockHandle(n) == <<"handle", n>>
BlockFileHandle(n) == <<"FileHandle", n>>
BlockFinfo(n) == <<"finfo", n>>
BlockStream(n) == <<"stream", n>>
BlockBuffer(n) == <<"buffer", n>>

\* The steps of ZIP_openRead that may fail once the handle is there: an
\* allocation returns NULL or inflateInit2 does not return Z_OK.
OpenFailures == {"none", "FileHandle", "finfo", "inflateInit2", "buffer"}

\* The block b is returned to the caller, who owns it from then on.
Handed(h, b) == [h EXCEPT !.live = @ \ {b}]

\* inflateEnd frees the state of a stream that has one.
InflateEnd(h, n) == IF BlockStream(n) \in h.live THEN Free(h, BlockStream(n)) ELSE h

\* ZIP_fileClose(handle) of the n-th file, the platform closing the handle.
ZIP_fileClose(h, n, method) ==
    Free(IF BlockBuffer(n) \in h.live
         THEN Free(IF method # COMPMETH_NONE THEN InflateEnd(Free(h, BlockHandle(n)), n)
                   ELSE Free(h, BlockHandle(n)),
                   BlockBuffer(n))
         ELSE IF method # COMPMETH_NONE THEN InflateEnd(Free(h, BlockHandle(n)), n)
         ELSE Free(h, BlockHandle(n)),
         BlockFinfo(n))

\* ZIP_openRead, lines 1405-1436, for a compressed entry: h holds the
\* handle, the FileHandle and the ZIPfileinfo.
OpenReadCompressed(h, n, method, fail) ==
    IF fail = "inflateInit2" THEN ZIP_fileClose(h, n, method)
    ELSE IF fail = "buffer" THEN ZIP_fileClose(Malloc(h, BlockStream(n)), n, method)
    ELSE Handed(Malloc(Malloc(h, BlockStream(n)), BlockBuffer(n)), BlockFileHandle(n))

\* ZIP_openRead, lines 1401-1436, zip_get_file_handle having opened and
\* positioned the handle: the heap it leaves.
OpenReadHeap(h, n, method, fail) ==
    IF fail = "FileHandle" THEN Free(Malloc(h, BlockHandle(n)), BlockHandle(n))
    ELSE IF fail = "finfo"
    THEN Free(Free(Malloc(Malloc(h, BlockHandle(n)), BlockFileHandle(n)),
                   BlockFileHandle(n)), BlockHandle(n))
    ELSE IF method # COMPMETH_NONE
    THEN OpenReadCompressed(Malloc(Malloc(Malloc(h, BlockHandle(n)), BlockFileHandle(n)),
                                   BlockFinfo(n)), n, method, fail)
    ELSE Handed(Malloc(Malloc(Malloc(h, BlockHandle(n)), BlockFileHandle(n)),
                       BlockFinfo(n)), BlockFileHandle(n))

\* Whether ZIP_openRead returns a file.
OpenReadSucceeds(method, fail) ==
    fail = "none" \/ (method = COMPMETH_NONE /\ fail \in {"inflateInit2", "buffer"})

\* ZIP_openRead(name) for a name whose entry zip_resolve finds resolved.
FileOpenRead(e, fail) ==
    /\ ~finfo.open
    /\ entries[e].resolved = ZIP_RESOLVED
    /\ finfo' = IF OpenReadSucceeds(entries[OpenFileOn(e).entry].compression_method, fail)
                THEN OpenFileOn(e) ELSE NoFile
    /\ heap' = OpenReadHeap(heap, 1, entries[OpenFileOn(e).entry].compression_method, fail)
    /\ hist' = <<>>
    /\ seeked' = FALSE
    /\ UNCHANGED <<peer, handles, image, entries, stack, call, result, dirq>>

FileRead(objSize, objCount) ==
    /\ finfo.open
    /\ LET r == ZIP_read(finfo, objSize, objCount)
       IN  /\ finfo' = r.f
           /\ hist' = Push(hist, [op |-> "read", a |-> objSize, b |-> objCount,
                                  ret |-> r.ret, err |-> r.err, bytes |-> r.bytes,
                                  pre |-> finfo])
    /\ UNCHANGED <<mountVars, image, entries, seeked, stack, call, result, dirq>>

FileSeek(offset) ==
    /\ finfo.open
    /\ LET r == ZIP_seek(finfo, offset)
       IN  /\ finfo' = r.f
           /\ hist' = Push(hist, [op |-> "seek", a |-> offset, b |-> 0,
                                  ret |-> IF r.ok THEN 1 ELSE 0, err |-> r.err,
                                  bytes |-> <<>>, pre |-> finfo])
    /\ seeked' = TRUE
    /\ UNCHANGED <<mountVars, image, entries, stack, call, result, dirq>>

\* ZIP_fileClose: the handle, the inflater, the buffer and finfo are released.
FileClose ==
    /\ finfo.open
    /\ finfo' = NoFile
    /\ heap' = ZIP_fileClose(heap, 1, entries[finfo.entry].compression_method)
    /\ hist' = <<>>
    /\ seeked' = FALSE
    /\ UNCHANGED <<peer, handles, image, entries, stack, call, result, dirq>>

NextFile ==
    \/ \E e \in DOMAIN entries, fail \in OpenFailures : FileOpenRead(e, fail)
    \/ \E objSize \in 1..MaxObjSize, objCount \in 0..MaxObjCount :
           FileRead(objSize, objCount)
    \/ \E offset \in 0..MaxSeekOffset : FileSeek(offset)
    \/ FileClose

SpecFile == InitFile /\ [][NextFile]_vars


(***************************************************************************)
(* Claims about the open file, checked under SpecFile.                     *)
(***************************************************************************)
Last == hist[Len(hist)]
ReadArgs == (1..MaxObjSize) \X (0..MaxObjCount)
Fresh(f) == OpenFileOn(f.entry)
\* What a caller observes of a read: the count, the bytes and tell().
Observed(r) == <<r.ret, r.bytes, ZIP_tell(r.f)>>

\* C4: as long as only reads were issued since the open, tell() <= fileLength()
\* and eof() holds exactly when tell() = fileLength().
C4_ReadsStayInFile ==
    (finfo.open /\ ~seeked) =>
        /\ ZIP_tell(finfo) <= ZIP_fileLength(finfo)
        /\ ZIP_eof(finfo) <=> (ZIP_tell(finfo) = ZIP_fileLength(finfo))

\* Two reads since the open have consumed a compressed entry to its end.
C4_Witness ==
    /\ finfo.open /\ ~seeked /\ Len(hist) = 2
    /\ hist[1].op = "read" /\ hist[1].ret > 0
    /\ hist[2].op = "read" /\ hist[2].ret > 0
    /\ entries[finfo.entry].compression_method # COMPMETH_NONE
    /\ ZIP_eof(finfo)

\* C5: after a successful seek(o), tell() = o, and a read of k bytes delivers
\* the entry's bytes o+1 .. o+k (as far as the entry goes).
C5_SeekSetsTell ==
    (finfo.open /\ hist # <<>> /\ Last.op = "seek" /\ Last.ret = 1) =>
        /\ ZIP_tell(finfo) = Last.a
        /\ \A k \in 1..MaxObjCount :
               ZIP_read(finfo, 1, k).bytes =
                   Slice(Content(finfo.entry), Last.a + 1,
                         Min(Last.a + k, ZIP_fileLength(finfo)))

\* C6: a read that asks for more than the bytes remaining delivers
\* floor(avail / objSize) objects and sets ERR_PAST_EOF; when that is no
\* object the file is unchanged; uncompressed_position advances by
\* ret * objSize.
C6_ReadPastEnd ==
    (finfo.open /\ hist # <<>> /\ Last.op = "read") =>
        LET size == ZIP_fileLength(finfo)
            pos == Last.pre.uncompressed_position
            avail == IF pos <= size THEN size - pos ELSE 0
        IN  /\ ZIP_tell(finfo) = pos + Last.ret * Last.a
            /\ Last.a * Last.b > avail =>
                   /\ Last.ret = avail \div Last.a
                   /\ Last.err = ERR_PAST_EOF
                   /\ Last.ret = 0 => finfo = Last.pre

\* The seek that gave `direct` succeeded, and every read of f returns what
\* it returns of direct.f.
SameReads(f, direct) ==
    /\ direct.ok
    /\ \A args \in ReadArgs :
           Observed(ZIP_read(f, args[1], args[2]))
               = Observed(ZIP_read(direct.f, args[1], args[2]))

\* C7: after seek(a); seek(b), both successful, every read returns what it
\* returns after seek(b) alone from the state before seek(a).
C7_SeekIdempotent ==
    (/\ finfo.open /\ Len(hist) = 2
     /\ hist[1].op = "seek" /\ hist[1].ret = 1
     /\ hist[2].op = "seek" /\ hist[2].ret = 1) =>
        SameReads(finfo, ZIP_seek(hist[1].pre, hist[2].a))

\* A forward seek, then a backward seek into the middle of a compressed entry.
C7_Witness ==
    /\ finfo.open /\ Len(hist) = 2
    /\ hist[1].op = "seek" /\ hist[1].ret = 1
    /\ hist[2].op = "seek" /\ hist[2].ret = 1
    /\ hist[1].pre.uncompressed_position < hist[2].a
    /\ 0 < hist[2].a /\ hist[2].a < hist[1].a
    /\ entries[finfo.entry].compression_method # COMPMETH_NONE
    /\ ZIP_read(finfo, 1, 1).ret = 1

\* C8: on a freshly opened file, after read(M); seek(0) a read of N >= M bytes
\* delivers the bytes it delivers after seek(0) alone; and a backward seek to
\* 0 in a compressed entry leaves the file as ZIP_openRead made it.
C8_BackwardSeekRestarts ==
    /\ (/\ finfo.open /\ Len(hist) = 2
        /\ hist[1].op = "read" /\ hist[1].pre = Fresh(finfo)
        /\ hist[2].op = "seek" /\ hist[2].a = 0 /\ hist[2].ret = 1) =>
           \A args \in ReadArgs :
               args[1] * args[2] >= hist[1].a * hist[1].b =>
                   ZIP_read(finfo, args[1], args[2]).bytes
                       = ZIP_read(ZIP_seek(Fresh(finfo), 0).f, args[1], args[2]).bytes
    /\ (/\ finfo.open /\ hist # <<>>
        /\ Last.op = "seek" /\ Last.a = 0 /\ Last.ret = 1
        /\ Last.pre.uncompressed_position > 0
        /\ entries[finfo.entry].compression_method # COMPMETH_NONE) =>
           finfo = Fresh(finfo)

\* A compressed entry is read past its first refill, then rewound to 0.
C8_Witness ==
    /\ finfo.open /\ Len(hist) = 2
    /\ hist[1].op = "read" /\ hist[1].pre = Fresh(finfo)
    /\ hist[1].ret * hist[1].a > ReadBufSize
    /\ hist[2].op = "seek" /\ hist[2].a = 0 /\ hist[2].ret = 1
    /\ entries[finfo.entry].compression_method # COMPMETH_NONE


(***************************************************************************)
(* C strings and the entry table.                                          *)
(***************************************************************************)
\* *(buf + p) for a 0-based pointer p.
At(buf, p) == buf[p + 1]

\* strchr(buf + p, ch) for ch # NUL: the pointer to the first ch, or -1 for
\* the null pointer.
RECURSIVE Strchr(_, _, _)
Strchr(buf, p, ch) ==
    IF At(buf, p) = ch THEN p
    ELSE IF At(buf, p) = NUL THEN -1
    ELSE Strchr(buf, p + 1, ch)

\* strlen(buf + p)
RECURSIVE Strlen(_, _)
Strlen(buf, p) == IF At(buf, p) = NUL THEN 0 ELSE 1 + Strlen(buf, p + 1)

\* The string that starts at buf + p, without its terminator.
CString(buf, p) == Slice(buf, p + 1, p + Strlen(buf, p))

\* memmove(buf + dst, buf + src, n)
Memmove(buf, dst, src, n) ==
    [i \in 1..Len(buf) |-> IF dst < i /\ i <= dst + n THEN buf[i - dst + src] ELSE buf[i]]

\* strcmp(a, b) on terminated strings given without their terminator:
\* negative, zero or positive.
RECURSIVE Strcmp(_, _)
Strcmp(a, b) ==
    IF a = <<>> /\ b = <<>> THEN 0
    ELSE IF a = <<>> THEN -1
    ELSE IF b = <<>> THEN 1
    ELSE IF Head(a) # Head(b) THEN Head(a) - Head(b)
    ELSE Strcmp(Tail(a), Tail(b))

\* The loop of zip_find_entry: a binary search of a[lo..hi] (0-based) for
\* path; the value is the entry (1-based index) or NULL.
RECURSIVE FindEntryLoop(_, _, _, _)
FindEntryStep(a, path, lo, hi, middle, rc) ==
    IF rc = 0 THEN middle + 1
    ELSE IF rc > 0 THEN FindEntryLoop(a, path, middle + 1, hi)
    ELSE FindEntryLoop(a, path, lo, middle - 1)

FindEntryMiddle(a, path, lo, hi, middle) ==
    FindEntryStep(a, path, lo, hi, middle, Strcmp(path, a[middle + 1].name))

FindEntryLoop(a, path, lo, hi) ==
    IF lo <= hi THEN FindEntryMiddle(a, path, lo, hi, lo + ((hi - lo) \div 2))
    ELSE NULL

zip_find_entry(a, path) == FindEntryLoop(a, path, 0, Len(a) - 1)

\* zip_convert_dos_path: archives written on FAT (host type 0) get their
\* backslashes turned into slashes.
zip_convert_dos_path(entry, path) ==
    IF (entry.version \div 256) % 256 = 0
    THEN [i \in 1..Len(path) |->
             IF i <= Strlen(path, 0) /\ path[i] = BACKSLASH THEN SLASH ELSE path[i]]
    ELSE path

\* readui16 and readui32 of zip_parse_local succeed as long as the bytes
\* read lie in the file: the first n bytes of the header are there.
LocalGot(entry, n) == entry.offset + n <= image.len

ParseLocalFails(entry, err) == [ok |-> FALSE, err |-> err, entry |-> entry]

\* As ParseLocalWith, the crc of the header not being compared.
ParseLocalCrcUnchecked(entry, h) ==
    IF ~LocalGot(entry, 4)
    THEN ParseLocalFails(entry, NoError)
    ELSE IF ~h.sig_ok THEN ParseLocalFails(entry, ERR_CORRUPTED)
    ELSE IF ~LocalGot(entry, 6) THEN ParseLocalFails(entry, NoError)
    ELSE IF h.version_needed # entry.version_needed
    THEN ParseLocalFails(entry, ERR_CORRUPTED)
    ELSE IF ~LocalGot(entry, 10) THEN ParseLocalFails(entry, NoError)
    ELSE IF h.compression_method # entry.compression_method
    THEN ParseLocalFails(entry, ERR_CORRUPTED)
    ELSE IF ~LocalGot(entry, 22) THEN ParseLocalFails(entry, NoError)
    ELSE IF h.compressed_size # entry.compressed_size
    THEN ParseLocalFails(entry, ERR_CORRUPTED)
    ELSE IF ~LocalGot(entry, 26) THEN ParseLocalFails(entry, NoError)
    ELSE IF h.uncompressed_size # entry.uncompressed_size
    THEN ParseLocalFails(entry, ERR_CORRUPTED)
    ELSE IF ~LocalGot(entry, LOCAL_HEADER_FIXED) THEN ParseLocalFails(entry, NoError)
    ELSE [ok |-> TRUE, err |-> NoError,
          entry |-> [entry EXCEPT !.offset =
                        U32(@ + h.fnamelen + h.extralen + LOCAL_HEADER_FIXED)]]

\* zip_parse_local with the local header h found at entry->offset: the
\* fields are read in the order of the file (signature at 0, version needed
\* at 4, general bits at 6, method at 8, time at 10, crc at 14, sizes at 18
\* and 22, the two lengths at 26 and 28); a seek past the end of the file or
\* a read that is short fails with no error set, a field that differs from the central directory fails with
\* ERR_CORRUPTED.
ParseLocalWith(entry, h) ==
    IF ~LocalGot(entry, 4)
    THEN ParseLocalFails(entry, NoError)
    ELSE IF ~h.sig_ok THEN ParseLocalFails(entry, ERR_CORRUPTED)
    ELSE IF ~LocalGot(entry, 6) THEN ParseLocalFails(entry, NoError)
    ELSE IF h.version_needed # entry.version_needed
    THEN ParseLocalFails(entry, ERR_CORRUPTED)
    ELSE IF ~LocalGot(entry, 10) THEN ParseLocalFails(entry, NoError)
    ELSE IF h.compression_method # entry.compression_method
    THEN ParseLocalFails(entry, ERR_CORRUPTED)
    ELSE IF ~LocalGot(entry, 18) THEN ParseLocalFails(entry, NoError)
    ELSE IF h.crc # entry.crc THEN ParseLocalFails(entry, ERR_CORRUPTED)
    ELSE IF ~LocalGot(entry, 22) THEN ParseLocalFails(entry, NoError)
    ELSE IF h.compressed_size # entry.compressed_size
    THEN ParseLocalFails(entry, ERR_CORRUPTED)
    ELSE IF ~LocalGot(entry, 26) THEN ParseLocalFails(entry, NoError)
    ELSE IF h.uncompressed_size # entry.uncompressed_size
    THEN ParseLocalFails(entry, ERR_CORRUPTED)
    ELSE IF ~LocalGot(entry, LOCAL_HEADER_FIXED) THEN ParseLocalFails(entry, NoError)
    ELSE [ok |-> TRUE, err |-> NoError,
          entry |-> [entry EXCEPT !.offset =
                        U32(@ + h.fnamelen + h.extralen + LOCAL_HEADER_FIXED)]]

\* The local header the file has at offset; elsewhere the bytes are data,
\* which in the archives of the model never holds the signature PK\003\004.
NoLocalHeader == LocalHeaderOf(MkEntry(<<>>, ZIP_UNRESOLVED_FILE, 0, 0, 0, 0), 0, 0)
LocalHeaderAt(offset) ==
    IF offset \in DOMAIN image.hdr THEN image.hdr[offset]
    ELSE [NoLocalHeader EXCEPT !.sig_ok = FALSE]

zip_parse_local(entry) == ParseLocalWith(entry, LocalHeaderAt(entry.offset))

(***************************************************************************)
(* zip_resolve_symlink up to the call of zip_follow_symlink, and the body  *)
(* of the loop of zip_expand_symlink_path.                                 *)
(***************************************************************************)
\* The malloc'ed path once the link is in it: size bytes and the terminator
\* written by path[entry->uncompressed_size] = '\0'. Bytes the inflater did
\* not write are uninitialised: any byte (junk).
LinkBuffer(size, bytes, junk) ==
    [i \in 1..(size + 1) |->
        IF i <= Len(bytes) THEN bytes[i] ELSE IF i <= size THEN junk ELSE NUL]

InflatedLink(entry, i, junk) ==
    [rc |-> i.rc \in {Z_OK, Z_STREAM_END},
     path |-> LinkBuffer(entry.uncompressed_size, i.out, junk)]

CompressedLink(entry, r, junk) ==
    IF r.n = 1
    THEN InflatedLink(entry,
                      Inflate([FreshStream EXCEPT !.inbuf = r.bytes],
                              entry.uncompressed_size),
                      junk)
    ELSE [rc |-> FALSE, path |-> <<NUL>>]

StoredLink(entry, r) ==
    [rc |-> r.n = 1, path |-> LinkBuffer(entry.uncompressed_size, r.bytes, NUL)]

\* rc and path of zip_resolve_symlink before the test of rc.
ReadLink(entry, junk) ==
    IF entry.compression_method = COMPMETH_NONE
    THEN StoredLink(entry, PlatformRead(entry.offset, entry.uncompressed_size, 1))
    ELSE CompressedLink(entry, PlatformRead(entry.offset, entry.compressed_size, 1),
                        junk)

\* while (prevptr != path) { prevptr--; if (*prevptr == '/') { prevptr++; break; } }
RECURSIVE BackUp(_, _)
BackUp(buf, prevptr) ==
    IF prevptr = 0 THEN 0
    ELSE IF At(buf, prevptr - 1) = SLASH THEN prevptr
    ELSE BackUp(buf, prevptr - 1)

\* if (*(ptr + 3) == '\0') *prevptr = '\0';
ParentAtEnd(buf, ptr, prevptr) ==
    [path |-> IF At(buf, ptr + 3) = NUL THEN [buf EXCEPT ![prevptr + 1] = NUL] ELSE buf,
     ptr |-> ptr, prevptr |-> prevptr]

\* The branch for "/..", buf being the path after the memmove.
ParentInMiddle(buf, prevptr) == ParentAtEnd(buf, prevptr, BackUp(buf, prevptr))

ParentDir(buf, ptr, prevptr) ==
    IF At(buf, ptr + 3) = SLASH
    THEN ParentInMiddle(Memmove(buf, prevptr, ptr + 4, Strlen(buf, ptr + 4) + 1),
                        prevptr)
    ELSE ParentAtEnd(buf, ptr, prevptr)

\* One pass through the body of while (1) after strchr found a '/' at ptr.
ExpandBody(buf, ptr, prevptr) ==
    IF At(buf, ptr + 1) = DOT
    THEN IF At(buf, ptr + 2) = SLASH
         THEN [path |-> Memmove(buf, ptr, ptr + 2, Strlen(buf, ptr + 2) + 1),
               ptr |-> ptr, prevptr |-> prevptr]
         ELSE IF At(buf, ptr + 2) = NUL
         THEN [path |-> [buf EXCEPT ![ptr + 1] = NUL], ptr |-> ptr, prevptr |-> prevptr]
         ELSE IF At(buf, ptr + 2) = DOT
         THEN ParentDir(buf, ptr, prevptr)
         ELSE [path |-> buf, ptr |-> ptr, prevptr |-> prevptr]
    ELSE [path |-> buf, ptr |-> ptr, prevptr |-> ptr]

(***************************************************************************)
(* Archives of SpecResolve.                                                *)
(***************************************************************************)
\* A member of an archive: its central-directory fields, its stored bytes
\* and whether its local header agrees with the central directory.
Member(name, resolved, method, data, usize, hdr_ok) ==
    [name |-> name, resolved |-> resolved, method |-> method, data |-> data,
     usize |-> usize, hdr_ok |-> hdr_ok]

\* A symlink whose target is stored as it is.
Link(name, target) ==
    Member(name, ZIP_UNRESOLVED_SYMLINK, COMPMETH_NONE, target, Len(target), TRUE)

\* Offset of the local header of the k-th member: a local header has the 30
\* fixed bytes and the file name (no extra field), the data follows it.
RECURSIVE HeaderOffset(_, _)
HeaderOffset(members, k) ==
    IF k = 1 THEN 0
    ELSE HeaderOffset(members, k - 1) + LOCAL_HEADER_FIXED
             + Len(members[k - 1].name) + Len(members[k - 1].data)

EntryOfMember(members, k) ==
    MkEntry(members[k].name, members[k].resolved, HeaderOffset(members, k),
            members[k].method, Len(members[k].data), members[k].usize)

HeaderOfMember(members, k) ==
    [LocalHeaderOf(EntryOfMember(members, k), Len(members[k].name), 0)
        EXCEPT !.crc = IF members[k].hdr_ok THEN @ ELSE @ + 1]

RECURSIVE ImageData(_)
ImageData(members) ==
    IF members = <<>> THEN <<>>
    ELSE Zeros(LOCAL_HEADER_FIXED + Len(Head(members).name)) \o Head(members).data
             \o ImageData(Tail(members))

\* The entry table as zip_load_entries leaves it (the members are given in
\* the order of their names), and the archive file.
EntriesOf(members) == [k \in 1..Len(members) |-> EntryOfMember(members, k)]

ImageOf(members) ==
    [len |-> Len(ImageData(members)),
     hdr |-> [off \in {HeaderOffset(members, k) : k \in 1..Len(members)} |->
                 HeaderOfMember(members,
                     CHOOSE k \in 1..Len(members) : HeaderOffset(members, k) = off)],
     data |-> ImageData(members)]

\* "a", "b" and "d/c" are symlinks, "d/t" and "t" are regular files.
NameA == <<97>>
NameB == <<98>>
NameDC == <<100, 47, 99>>
NameDT == <<100, 47, 116>>
NameT == <<116>>
\* A name no archive of the model has.
NameMissing == <<122, 122>>

\* "b", "d/c", "t/.", "d/../b"
TargetsOfA == {NameB, NameDC, <<116, 47, 46>>, <<100, 47, 46, 46, 47, 98>>}
\* "b" is a stored link to "a" or a deflated link: one whose stream decodes
\* to the one-byte name <<1>>, one whose stream is malformed.
VariantsOfB ==
    {Link(NameB, NameA),
     Member(NameB, ZIP_UNRESOLVED_SYMLINK, 8, <<17, 0>>, 1, TRUE),
     Member(NameB, ZIP_UNRESOLVED_SYMLINK, 8, <<5>>, 1, TRUE)}
\* "t" stored, or with a compression method that is neither 0 nor 8.
VariantsOfT ==
    {Member(NameT, ZIP_UNRESOLVED_FILE, COMPMETH_NONE, <<11, 12, 13>>, 3, TRUE),
     Member(NameT, ZIP_UNRESOLVED_FILE, 9, <<39, 40, 0>>, 4, TRUE)}

\* "d/c" is a link to "a"; the local header of "d/t" disagrees with the
\* central directory.
ResolveArchives ==
    {<<Link(NameA, ta), b, Link(NameDC, NameA),
       Member(NameDT, ZIP_UNRESOLVED_FILE, 8, <<39, 40, 0>>, 4, FALSE), t>> :
        ta \in TargetsOfA, b \in VariantsOfB, t \in VariantsOfT}

\* The names a caller opens.
OpenNames == {NameA, NameB, NameDC, NameDT, NameT, NameMissing}
\* The values an uninitialised byte of a link buffer is given.
JunkBytes == {NUL, SLASH}

(***************************************************************************)
(* SpecResolve: ZIP_openRead with the resolver run one step at a time.     *)
(* A frame of the stack is one activation of zip_resolve; its pc is        *)
(*   "enter"   at the top of zip_resolve,                                  *)
(*   "strchr"  in zip_expand_symlink_path, before ptr = strchr(ptr, '/'),  *)
(*   "branch"  in zip_expand_symlink_path, after strchr found a '/',       *)
(*   "find"    in zip_follow_symlink, before zip_find_entry,               *)
(*   "await"   in zip_follow_symlink, inside the recursive zip_resolve,    *)
(*   "leave"   in zip_resolve, with retval known, before lines 804-807.    *)
(***************************************************************************)
Frame(e) ==
    [entry |-> e, type |-> ZIP_RESOLVED, pc |-> "enter", retval |-> 1,
     path |-> <<NUL>>, ptr |-> 0, prevptr |-> 0]

Top == stack[Len(stack)]
SetTop(frame) == [stack EXCEPT ![Len(stack)] = frame]

InitResolve ==
    /\ \E members \in ResolveArchives :
           /\ image = ImageOf(members)
           /\ entries = EntriesOf(members)
    /\ finfo = NoFile
    /\ hist = <<>>
    /\ seeked = FALSE
    /\ stack = <<>>
    /\ call = Idle
    /\ result = NoResult
    /\ dirq = NoQuery
    /\ heap = EmptyHeap
    /\ peer = NoFile
    /\ handles = NoHandles

\* ZIP_openRead up to the call of zip_resolve in zip_get_file_handle.
OpenReadFound(path, e) ==
    IF e = NULL
    THEN /\ result' = [op |-> "openRead", name |-> path, ret |-> 0,
                       err |-> ERR_NO_SUCH_FILE, was |-> ZIP_RESOLVED]
         /\ UNCHANGED <<stack, call>>
    ELSE /\ call' = [op |-> "openRead", name |-> path, entry |-> e,
                     err |-> NoError, was |-> entries[e].resolved]
         /\ stack' = <<Frame(e)>>
         /\ result' = NoResult

OpenReadCall(path) ==
    /\ call = Idle
    /\ ~finfo.open
    /\ OpenReadFound(path, zip_find_entry(entries, path))
    /\ UNCHANGED <<mountVars, image, entries, finfo, hist, seeked, dirq>>

\* The frame leaves zip_resolve with retval; err is the error it set, if any.
Leaving(frame, type, retval, err) ==
    /\ stack' = SetTop([frame EXCEPT !.type = type, !.pc = "leave", !.retval = retval])
    /\ call' = [call EXCEPT !.err = IF err = NoError THEN @ ELSE err]

\* zip_resolve_symlink after the link was read.
EnterLink(frame, type, entry, l) ==
    IF l.rc
    THEN /\ stack' = SetTop([frame EXCEPT !.type = type, !.pc = "strchr",
                                          !.path = zip_convert_dos_path(entry, l.path),
                                          !.ptr = 0, !.prevptr = 0])
         /\ UNCHANGED call
    ELSE Leaving(frame, type, 0,
                 IF entry.compression_method = COMPMETH_NONE THEN ERR_IO ELSE ERR_ZLIB)

\* As EnterParsed, the crc of the local header being taken into the entry.
EnterParsedTakesCrc(frame, type, p, junk) ==
    /\ entries' = [entries EXCEPT ![frame.entry] =
                      [p.entry EXCEPT !.resolved = ZIP_RESOLVING,
                                      !.crc = LocalHeaderAt(entries[frame.entry].offset).crc]]
    /\ IF ~p.ok THEN Leaving(frame, type, 0, p.err)
       ELSE IF type = ZIP_UNRESOLVED_SYMLINK
       THEN EnterLink(frame, type, p.entry, ReadLink(p.entry, junk))
       ELSE Leaving(frame, type, 1, NoError)

\* zip_resolve after zip_parse_local returned p.
EnterParsed(frame, type, p, junk) ==
    /\ entries' = [entries EXCEPT ![frame.entry] =
                      [p.entry EXCEPT !.resolved = ZIP_RESOLVING]]
    /\ IF ~p.ok THEN Leaving(frame, type, 0, p.err)
       ELSE IF type = ZIP_UNRESOLVED_SYMLINK
       THEN EnterLink(frame, type, p.entry, ReadLink(p.entry, junk))
       ELSE Leaving(frame, type, 1, NoError)

\* As EnterResolve, an entry that failed before being tried again.
EnterResolveRetry(frame, type, junk) ==
    IF type = ZIP_RESOLVING
    THEN Leaving(frame, type, 0, ERR_SYMLINK_LOOP) /\ UNCHANGED entries
    ELSE IF type = ZIP_RESOLVED
    THEN Leaving(frame, type, 1, NoError) /\ UNCHANGED entries
    ELSE EnterParsed(frame,
                     IF type = ZIP_BROKEN_FILE THEN ZIP_UNRESOLVED_FILE
                     ELSE IF type = ZIP_BROKEN_SYMLINK THEN ZIP_UNRESOLVED_SYMLINK
                     ELSE type,
                     zip_parse_local(entries[frame.entry]), junk)

\* As EnterResolve, a resolved entry being parsed again as a file.
EnterResolveAgain(frame, type, junk) ==
    IF type \in {ZIP_BROKEN_FILE, ZIP_BROKEN_SYMLINK}
    THEN Leaving(frame, type, 0, ERR_CORRUPTED) /\ UNCHANGED entries
    ELSE IF type = ZIP_RESOLVING
    THEN Leaving(frame, type, 0, ERR_SYMLINK_LOOP) /\ UNCHANGED entries
    ELSE EnterParsed(frame, IF type = ZIP_RESOLVED THEN ZIP_UNRESOLVED_FILE ELSE type,
                     zip_parse_local(entries[frame.entry]), junk)

\* zip_resolve from its top, resolve_type being entry->resolved.
EnterResolve(frame, type, junk) ==
    IF type \in {ZIP_BROKEN_FILE, ZIP_BROKEN_SYMLINK}
    THEN Leaving(frame, type, 0, ERR_CORRUPTED) /\ UNCHANGED entries
    ELSE IF type = ZIP_RESOLVING
    THEN Leaving(frame, type, 0, ERR_SYMLINK_LOOP) /\ UNCHANGED entries
    ELSE IF type = ZIP_RESOLVED
    THEN Leaving(frame, type, 1, NoError) /\ UNCHANGED entries
    ELSE EnterParsed(frame, type, zip_parse_local(entries[frame.entry]), junk)

ResolveEnter(junk) ==
    /\ stack # <<>>
    /\ Top.pc = "enter"
    /\ EnterResolve(Top, entries[Top.entry].resolved, junk)
    /\ UNCHANGED <<mountVars, image, finfo, hist, seeked, result, dirq>>

\* zip_expand_symlink_path, line 596-598: ptr = strchr(ptr, '/'), and the
\* loop is left when there is none.
ExpandFound(frame, ptr) ==
    stack' = SetTop([frame EXCEPT !.ptr = ptr,
                                  !.pc = IF ptr = -1 THEN "find" ELSE "branch"])

ExpandStrchr ==
    /\ stack # <<>>
    /\ Top.pc = "strchr"
    /\ ExpandFound(Top, Strchr(Top.path, Top.ptr, SLASH))
    /\ UNCHANGED <<mountVars, image, entries, finfo, hist, seeked, call, result, dirq>>

\* zip_expand_symlink_path, lines 600-642: the body of the loop.
ExpandDone(frame, b) ==
    stack' = SetTop([frame EXCEPT !.path = b.path, !.ptr = b.ptr,
                                  !.prevptr = b.prevptr, !.pc = "strchr"])

ExpandBranch ==
    /\ stack # <<>>
    /\ Top.pc = "branch"
    /\ ExpandDone(Top, ExpandBody(Top.path, Top.ptr, Top.prevptr))
    /\ UNCHANGED <<mountVars, image, entries, finfo, hist, seeked, call, result, dirq>>

\* zip_follow_symlink, lines 659-662: look the expanded path up and resolve
\* the entry found; with none, entry->symlink stays NULL and
\* zip_resolve_symlink returns 0.
FollowFound(frame, e) ==
    IF e = NULL
    THEN Leaving(frame, frame.type, 0, ERR_NO_SUCH_FILE)
    ELSE /\ stack' = Append(SetTop([frame EXCEPT !.pc = "await"]), Frame(e))
         /\ UNCHANGED call

FollowFind ==
    /\ stack # <<>>
    /\ Top.pc = "find"
    /\ FollowFound(Top, zip_find_entry(entries, CString(Top.path, 0)))
    /\ UNCHANGED <<mountVars, image, entries, finfo, hist, seeked, result, dirq>>

\* As ResolvedAs, the entry being written only when it was resolved.
ResolvedAsOnSuccess(type, retval, resolved) ==
    IF retval = 1 /\ type \in {ZIP_UNRESOLVED_SYMLINK, ZIP_UNRESOLVED_FILE}
    THEN ZIP_RESOLVED
    ELSE resolved

\* As ResolvedAs, a link that failed to resolve being left as a broken file.
ResolvedAsBrokenFile(type, retval, resolved) ==
    IF type \in {ZIP_UNRESOLVED_SYMLINK, ZIP_UNRESOLVED_FILE}
    THEN (IF retval = 1 THEN ZIP_RESOLVED ELSE ZIP_BROKEN_FILE)
    ELSE resolved

\* zip_resolve, lines 804-807: the state the entry is left in.
ResolvedAs(type, retval, resolved) ==
    IF type = ZIP_UNRESOLVED_SYMLINK
    THEN (IF retval = 1 THEN ZIP_RESOLVED ELSE ZIP_BROKEN_SYMLINK)
    ELSE IF type = ZIP_UNRESOLVED_FILE
    THEN (IF retval = 1 THEN ZIP_RESOLVED ELSE ZIP_BROKEN_FILE)
    ELSE resolved

LeaveResolve(tab, frame) ==
    [tab EXCEPT ![frame.entry].resolved = ResolvedAs(frame.type, frame.retval, @)]

\* As FollowedTo, entry->symlink being left at the entry the link names.
FollowedToNamed(tab, callee) == IF callee.retval = 0 THEN NULL ELSE callee.entry

\* zip_follow_symlink, lines 662-667, and zip_resolve_symlink, lines 729-732:
\* the value entry->symlink of the caller is given.
FollowedTo(tab, callee) ==
    IF callee.retval = 0 THEN NULL
    ELSE IF tab[callee.entry].symlink # NULL THEN tab[callee.entry].symlink
    ELSE callee.entry

\* A recursive zip_resolve returns to zip_follow_symlink.
ReturnTo(caller, callee, tab) ==
    /\ entries' = [tab EXCEPT ![caller.entry].symlink = FollowedTo(tab, callee)]
    /\ stack' = [i \in 1..(Len(stack) - 1) |->
                    IF i = Len(stack) - 1
                    THEN [caller EXCEPT !.pc = "leave",
                                        !.retval = IF FollowedTo(tab, callee) # NULL
                                                   THEN 1 ELSE 0]
                    ELSE stack[i]]

ResolveReturn ==
    /\ Len(stack) > 1
    /\ Top.pc = "leave"
    /\ ReturnTo(stack[Len(stack) - 1], Top, LeaveResolve(entries, Top))
    /\ UNCHANGED <<mountVars, image, finfo, hist, seeked, call, result, dirq>>

\* The outermost zip_resolve returns to zip_get_file_handle, and ZIP_openRead
\* runs to its end.
OpenReadFinish ==
    /\ Len(stack) = 1
    /\ Top.pc = "leave"
    /\ entries' = LeaveResolve(entries, Top)
    /\ stack' = <<>>
    /\ call' = Idle
    /\ finfo' = IF Top.retval = 1 THEN OpenFileOn(Top.entry) ELSE NoFile
    /\ heap' = IF Top.retval = 1
               THEN OpenReadHeap(heap, 1,
                                 entries[OpenFileOn(Top.entry).entry].compression_method,
                                 "none")
               ELSE Free(Malloc(heap, BlockHandle(1)), BlockHandle(1))
    /\ result' = [op |-> "openRead", name |-> call.name, ret |-> Top.retval,
                  err |-> IF Top.retval = 1 THEN NoError ELSE call.err,
                  was |-> call.was]
    /\ UNCHANGED <<peer, handles, image, hist, seeked, dirq>>

\* The steps of a running ZIP_openRead.
ResolveStep ==
    \/ \E junk \in JunkBytes : ResolveEnter(junk)
    \/ ExpandStrchr
    \/ ExpandBranch
    \/ FollowFind
    \/ ResolveReturn
    \/ OpenReadFinish

NextResolve ==
    \/ \E path \in OpenNames : OpenReadCall(path)
    \/ ResolveStep
    \/ FileClose

SpecResolve == InitResolve /\ [][NextResolve]_vars

\* A call that was started keeps running: the thread in ZIP_openRead is
\* scheduled again as long as it has a step to take.
SpecResolveFair == SpecResolve /\ WF_vars(ResolveStep)


(***************************************************************************)
(* Claims about the resolver, checked under SpecResolve and                *)
(* SpecResolveFair.                                                        *)
(***************************************************************************)
zip_entry_is_symlink(entry) ==
    \/ entry.resolved = ZIP_UNRESOLVED_SYMLINK
    \/ entry.resolved = ZIP_BROKEN_SYMLINK
    \/ entry.symlink # NULL

\* Where the data of an entry starts: entry->offset once zip_parse_local has
\* moved it there.
DataOffset(entry) ==
    IF entry.resolved \in {ZIP_UNRESOLVED_FILE, ZIP_UNRESOLVED_SYMLINK, ZIP_BROKEN_FILE}
    THEN zip_parse_local(entry).entry.offset
    ELSE entry.offset

\* The entry a stored symlink names verbatim, or NULL.
LinkTargetAt(entry, offset) ==
    zip_find_entry(entries, Slice(image.data, offset + 1, offset + entry.compressed_size))

LinkTarget(k) ==
    IF k # NULL /\ zip_entry_is_symlink(entries[k])
          /\ entries[k].compression_method = COMPMETH_NONE
    THEN LinkTargetAt(entries[k], DataOffset(entries[k]))
    ELSE NULL

\* The entry reached from k by following n links.
RECURSIVE Chase(_, _)
Chase(k, n) == IF n = 0 THEN k ELSE Chase(LinkTarget(k), n - 1)

CycleOf(k) == {Chase(k, n) : n \in 1..Len(entries)}
OnCycle(k) == k # NULL /\ k \in CycleOf(k)

\* C1: every ZIP_openRead that starts resolving an entry comes to an end.
C1_ResolveTerminates == (call.op = "openRead") ~> (call.op = "idle")

\* ZIP_openRead is entered for a symlink that lies on a cycle no entry of
\* which was resolved before.
C9_Started ==
    /\ call.op = "openRead"
    /\ call.was = ZIP_UNRESOLVED_SYMLINK
    /\ OnCycle(call.entry)

\* The ZIP_openRead that has returned was one of a symlink on a cycle, not
\* resolved before.
C9_Returned ==
    /\ call = Idle
    /\ result.op = "openRead"
    /\ result.was = ZIP_UNRESOLVED_SYMLINK
    /\ OnCycle(zip_find_entry(entries, result.name))

\* It failed with ERR_SYMLINK_LOOP and every entry of the cycle is a broken
\* symlink.
C9_Failed ==
    /\ result.ret = 0 /\ result.err = ERR_SYMLINK_LOOP
    /\ \A j \in CycleOf(zip_find_entry(entries, result.name)) :
           entries[j].resolved = ZIP_BROKEN_SYMLINK

\* C9: the first ZIP_openRead of an entry on a symlink cycle returns, fails
\* with ERR_SYMLINK_LOOP and leaves the entries of the cycle broken symlinks;
\* a ZIP_openRead of a broken symlink fails with ERR_CORRUPTED.
C9_CycleFailsWithLoop ==
    /\ C9_Started ~> (call = Idle)
    /\ [](C9_Returned => C9_Failed)
    /\ [](result.op = "openRead" /\ result.was = ZIP_BROKEN_SYMLINK =>
              result.ret = 0 /\ result.err = ERR_CORRUPTED)

\* C10: no file is open on an entry whose compression method is neither 0
\* (stored) nor 8 (deflated).
C10_UnknownMethodRejected ==
    finfo.open => entries[finfo.entry].compression_method \in {COMPMETH_NONE, 8}


(***************************************************************************)
(* The directory queries.                                                  *)
(***************************************************************************)
\* strncmp(a, b, n) on terminated strings given without their terminator.
RECURSIVE Strncmp(_, _, _)
Strncmp(a, b, n) ==
    IF n = 0 \/ (a = <<>> /\ b = <<>>) THEN 0
    ELSE IF a = <<>> THEN -1
    ELSE IF b = <<>> THEN 1
    ELSE IF Head(a) # Head(b) THEN Head(a) - Head(b)
    ELSE Strncmp(Tail(a), Tail(b), n - 1)

\* name[k] for k <= strlen(name).
CharAt(name, k) == IF k < Len(name) THEN name[k + 1] ELSE NUL

\* Reading past the end of the entries array is undefined: the read yields
\* whatever lies there, taken for a name (garbage), or it faults and the
\* process dies (garbage = Fault). At MaxOverrun elements past the end the
\* memory of the process ends.
Fault == <<-1>>
JunkNames == {<<>>, <<100, 47, 113>>}
GarbageReads == JunkNames \cup {Fault}

\* info->entries[idx].name (0-based).
NameAt(a, idx, garbage) ==
    IF idx < Len(a) THEN a[idx + 1].name
    ELSE IF idx < Len(a) + MaxOverrun THEN garbage
    ELSE Fault

\* The loop of zip_find_start_of_dir. The value is the index returned (0-based,
\* -1 for none), whether the array was read out of bounds (ub) and whether
\* that read faulted.
RECURSIVE FindStartLoop(_, _, _, _, _, _, _, _, _)
FindStartNarrow(a, path, dlen, stop, lo, hi, middle, retval, garbage, ub, rc) ==
    IF rc > 0
    THEN FindStartLoop(a, path, dlen, stop, middle + 1, hi, retval, garbage, ub)
    ELSE FindStartLoop(a, path, dlen, stop, lo, middle - 1, retval, garbage, ub)

FindStartMatch(a, path, dlen, stop, lo, hi, middle, retval, garbage, ub, name, ch) ==
    IF ch < SLASH
    THEN FindStartNarrow(a, path, dlen, stop, lo, hi, middle, retval, garbage, ub, -1)
    ELSE IF ch > SLASH
    THEN FindStartNarrow(a, path, dlen, stop, lo, hi, middle, retval, garbage, ub, 1)
    ELSE IF CharAt(name, dlen + 1) = NUL \/ stop
    THEN [ret |-> middle, ub |-> ub, fault |-> FALSE]
    ELSE FindStartNarrow(a, path, dlen, stop, lo, middle - 1, middle, middle,
                         garbage, ub, 0)

FindStartCompare(a, path, dlen, stop, lo, hi, middle, retval, garbage, ub, name, rc) ==
    IF rc = 0
    THEN FindStartMatch(a, path, dlen, stop, lo, hi, middle, retval, garbage, ub,
                        name, CharAt(name, dlen))
    ELSE FindStartNarrow(a, path, dlen, stop, lo, hi, middle, retval, garbage, ub, rc)

FindStartProbe(a, path, dlen, stop, lo, hi, middle, retval, garbage, ub, name) ==
    IF name = Fault THEN [ret |-> -1, ub |-> ub, fault |-> TRUE]
    ELSE FindStartCompare(a, path, dlen, stop, lo, hi, middle, retval, garbage, ub, name,
                     Strncmp(path, name, dlen))

FindStartMiddle(a, path, dlen, stop, lo, hi, middle, retval, garbage, ub) ==
    FindStartProbe(a, path, dlen, stop, lo, hi, middle, retval, garbage,
                   ub \/ middle >= Len(a), NameAt(a, middle, garbage))

FindStartLoop(a, path, dlen, stop, lo, hi, retval, garbage, ub) ==
    IF lo <= hi
    THEN FindStartMiddle(a, path, dlen, stop, lo, hi, lo + ((hi - lo) \div 2), retval,
                         garbage, ub)
    ELSE [ret |-> retval, ub |-> ub, fault |-> FALSE]

\* zip_find_start_of_dir(info, path, stop_on_first_find)
zip_find_start_of_dir(a, path, stop, garbage) ==
    IF path = <<>> THEN [ret |-> 0, ub |-> FALSE, fault |-> FALSE]
    ELSE FindStartLoop(a, path,
                       IF path[Len(path)] = SLASH THEN Len(path) - 1 ELSE Len(path),
                       stop, 0, Len(a), -1, garbage, FALSE)

\* What a read past the terminator of a name yields, taken for a string.
JunkStrings == {<<>>, <<113>>}

\* The first '/' of the string s (1-based), or 0 for the null pointer.
RECURSIVE SlashIn(_, _)
SlashIn(s, k) ==
    IF k > Len(s) THEN 0 ELSE IF s[k] = SLASH THEN k ELSE SlashIn(s, k + 1)

\* ZIP_enumerateFiles, lines 1264-1265, r being what zip_find_start_of_dir
\* returned.
EnumerateFrom(q, r) ==
    IF r.fault THEN [q EXCEPT !.pc = "crashed", !.ub = TRUE]
    ELSE IF r.ret = -1 THEN [q EXCEPT !.pc = "done", !.err = ERR_NO_SUCH_FILE,
                                      !.ub = @ \/ r.ub]
    ELSE [q EXCEPT !.pc = "loop", !.i = r.ret, !.ub = @ \/ r.ub]

\* ZIP_enumerateFiles, lines 1259-1262: last is dirname[dlen - 1], which for
\* the empty dirname is the byte in front of the string (before).
EnumerateDlen(q, dlen, last) ==
    [q EXCEPT !.dlen = IF last = SLASH THEN U32(dlen - 1) ELSE dlen,
              !.ub = (dlen = 0)]

\* ZIP_enumerateFiles up to its loop.
EnumerateCall(dirname, omit, before, garbage) ==
    /\ dirq.pc = "done"
    /\ dirq' = EnumerateFrom(
                   EnumerateDlen(Query("enumerate", dirname, omit), Len(dirname),
                                 IF dirname = <<>> THEN before
                                 ELSE dirname[Len(dirname)]),
                   zip_find_start_of_dir(entries, dirname, FALSE, garbage))
    /\ UNCHANGED <<mountVars, image, entries, finfo, hist, seeked, stack, call, result>>

\* The loop at lines 1294-1305 that skips the children of a subdirectory: the
\* index it ends at, or -1 when a read of the array faulted.
RECURSIVE SkipChildren(_, _, _)
SkipChild(q, idx, garbage, name) ==
    IF name = Fault THEN -1
    ELSE IF Strncmp(name, q.dirname, q.dlen) = 0 /\ CharAt(name, q.dlen) = SLASH
    THEN SkipChildren(q, idx + 1, garbage)
    ELSE idx

SkipChildren(q, idx, garbage) == SkipChild(q, idx, garbage, NameAt(entries, idx, garbage))

\* Lines 1294-1305 done, the loop at line 1267 goes on with entry idx.
EnumerateNext(q, idx) ==
    IF idx = -1 THEN [q EXCEPT !.pc = "crashed", !.ub = TRUE]
    ELSE [q EXCEPT !.i = idx, !.ub = @ \/ idx >= Len(entries)]

\* Lines 1287-1305, i being the incremented index.
EnumerateAdvance(q, i, slash, garbage) ==
    IF i >= Len(entries) THEN [q EXCEPT !.i = i, !.pc = "done"]
    ELSE IF q.dlen > 0 /\ Strncmp(entries[i + 1].name, q.dirname, q.dlen) # 0
    THEN [q EXCEPT !.i = i, !.pc = "done"]
    ELSE IF slash # 0 THEN EnumerateNext(q, SkipChildren(q, i, garbage))
    ELSE [q EXCEPT !.i = i]

\* Lines 1282-1285: add_file up to its first '/' is added to the list.
EnumerateAdd(q, add_file, slash, garbage) ==
    EnumerateAdvance(
        [q EXCEPT !.out = Append(@, IF slash # 0 THEN Slice(add_file, 1, slash - 1)
                                    ELSE add_file)],
        q.i + 1, slash, garbage)

\* Lines 1275-1280.
EnumerateEntry(q, is_symlink, add_file, garbage) ==
    IF (q.omit /\ is_symlink) \/ add_file = <<>>
    THEN [q EXCEPT !.i = @ + 1]
    ELSE EnumerateAdd(q, add_file, SlashIn(add_file, 1), garbage)

\* Line 1274: add_file = entry->name + off; past the terminator of the name
\* it points at bytes that are not the name's (junk).
EnumerateName(q, name, is_symlink, off, garbage, junk) ==
    IF name = Fault THEN [q EXCEPT !.pc = "crashed", !.ub = TRUE]
    ELSE EnumerateEntry([q EXCEPT !.ub = @ \/ q.i >= Len(entries) \/ off > Len(name)],
                        is_symlink,
                        IF off <= Len(name) THEN Slice(name, off + 1, Len(name))
                        ELSE junk,
                        garbage)

\* One turn of the loop at line 1267.
EnumerateStep(garbage, junk) ==
    /\ dirq.op = "enumerate"
    /\ dirq.pc = "loop"
    /\ dirq' = EnumerateName(dirq, NameAt(entries, dirq.i, garbage),
                   dirq.i < Len(entries) /\ zip_entry_is_symlink(entries[dirq.i + 1]),
                   dirq.dlen + (IF dirq.dlen > 0 THEN 1 ELSE 0), garbage, junk)
    /\ UNCHANGED <<mountVars, image, entries, finfo, hist, seeked, stack, call, result>>

\* ZIP_isDirectory, lines 1338-1355, entry being what zip_find_entry returned.
\* A symlink that is not resolved yet is handed to zip_resolve (pc "resolve").
IsDirectoryEntry(q, entry, garbage) ==
    IF entry = NULL THEN [q EXCEPT !.ret = 0, !.err = ERR_NO_SUCH_FILE]
    ELSE IF entries[entry].resolved = ZIP_UNRESOLVED_SYMLINK
    THEN [q EXCEPT !.pc = "resolve"]
    ELSE IF entries[entry].resolved = ZIP_BROKEN_SYMLINK THEN [q EXCEPT !.ret = 0]
    ELSE IF entries[entry].symlink = NULL
    THEN [q EXCEPT !.ret = 0, !.err = ERR_NOT_A_DIR]
    ELSE [q EXCEPT !.ret =
             IF zip_find_start_of_dir(entries, entries[entries[entry].symlink].name,
                                      TRUE, garbage).ret >= 0
             THEN 1 ELSE 0]

\* ZIP_isDirectory, lines 1333-1335: pos is the PHYSFS_uint32 that the
\* PHYSFS_sint32 result of zip_find_start_of_dir is stored in.
IsDirectoryPos(q, r, pos, garbage) ==
    IF r.fault THEN [q EXCEPT !.pc = "crashed", !.ub = TRUE]
    ELSE IF pos >= 0 THEN [q EXCEPT !.ret = 1, !.ub = r.ub]
    ELSE IsDirectoryEntry([q EXCEPT !.ub = r.ub],
                          zip_find_entry(entries, q.dirname), garbage)

IsDirectoryFound(q, r, garbage) == IsDirectoryPos(q, r, U32(r.ret), garbage)

ZIP_isDirectory(name, garbage) ==
    IsDirectoryFound(Query("isDirectory", name, FALSE),
                     zip_find_start_of_dir(entries, name, TRUE, garbage), garbage)

IsDirectory(name, garbage) ==
    /\ dirq.pc = "done"
    /\ dirq' = ZIP_isDirectory(name, garbage)
    /\ stack' = IF dirq'.pc = "resolve"
                THEN <<Frame(zip_find_entry(entries, name))>> ELSE stack
    /\ UNCHANGED <<mountVars, image, entries, finfo, hist, seeked, call, result>>

(***************************************************************************)
(* SpecDir: directory queries on a mounted archive.                        *)
(***************************************************************************)
DirEntry(name) == Member(name, ZIP_UNRESOLVED_FILE, COMPMETH_NONE, <<>>, 0, TRUE)
PlainFile(name) == Member(name, ZIP_UNRESOLVED_FILE, COMPMETH_NONE, <<1>>, 1, TRUE)

\* d/  d/sub/  d/sub/z  d/x  d/y  e
ArchiveExample ==
    <<DirEntry(<<100, 47>>), DirEntry(<<100, 47, 115, 117, 98, 47>>),
      PlainFile(<<100, 47, 115, 117, 98, 47, 122>>), PlainFile(<<100, 47, 120>>),
      PlainFile(<<100, 47, 121>>), PlainFile(<<101>>)>>
\* d/a/  d/b  eee
ArchiveSubdirFirst ==
    <<DirEntry(<<100, 47, 97, 47>>), PlainFile(<<100, 47, 98>>),
      PlainFile(<<101, 101, 101>>)>>
\* d/  d/x
ArchiveDirLast == <<DirEntry(<<100, 47>>), PlainFile(<<100, 47, 120>>)>>
\* a  d/l -> a  d/x
ArchiveWithLink ==
    <<PlainFile(NameA), Link(<<100, 47, 108>>, NameA), PlainFile(<<100, 47, 120>>)>>

DirArchives == {ArchiveExample, ArchiveSubdirFirst, ArchiveDirLast, ArchiveWithLink}

\* "", "d", "d/", "d/sub", "d/x", "d/l", "e", "zz"
DirNames ==
    {<<>>, <<100>>, <<100, 47>>, <<100, 47, 115, 117, 98>>, <<100, 47, 120>>,
     <<100, 47, 108>>, <<101>>, NameMissing}

InitDir ==
    /\ \E members \in DirArchives :
           /\ image = ImageOf(members)
           /\ entries = EntriesOf(members)
    /\ finfo = NoFile
    /\ hist = <<>>
    /\ seeked = FALSE
    /\ stack = <<>>
    /\ call = Idle
    /\ result = NoResult
    /\ dirq = NoQuery
    /\ heap = EmptyHeap
    /\ peer = NoFile
    /\ handles = NoHandles

NextDir ==
    \/ \E dirname \in DirNames, omit \in BOOLEAN, before \in JunkBytes,
          garbage \in GarbageReads :
           EnumerateCall(dirname, omit, before, garbage)
    \/ \E garbage \in GarbageReads, junk \in JunkStrings : EnumerateStep(garbage, junk)
    \/ \E name \in DirNames, garbage \in GarbageReads : IsDirectory(name, garbage)

SpecDir == InitDir /\ [][NextDir]_vars

(***************************************************************************)
(* Claims about the directory queries, checked under SpecDir.              *)
(***************************************************************************)
\* dir without its trailing slash.
Trimmed(dir) ==
    IF dir # <<>> /\ dir[Len(dir)] = SLASH THEN Slice(dir, 1, Len(dir) - 1) ELSE dir

\* The name lies under the directory dir: it begins with dir and a '/'.
Under(name, dir) ==
    /\ Len(name) > Len(dir)
    /\ Slice(name, 1, Len(dir)) = dir
    /\ name[Len(dir) + 1] = SLASH

\* The part of a name after the directory it lies under.
Below(name, dir) ==
    IF dir = <<>> THEN name ELSE Slice(name, Len(dir) + 2, Len(name))

FirstComponent(rest, slash) == IF slash = 0 THEN rest ELSE Slice(rest, 1, slash - 1)

\* The basenames of the immediate children of dir.
Children(dir) ==
    {FirstComponent(Below(entries[k].name, dir), SlashIn(Below(entries[k].name, dir), 1)) :
        k \in {j \in DOMAIN entries :
                  /\ dir = <<>> \/ Under(entries[j].name, dir)
                  /\ Below(entries[j].name, dir) # <<>>}}

IsDirectoryName(dir) == \E k \in DOMAIN entries : Under(entries[k].name, dir)

NoDuplicates(list) ==
    \A m, n \in DOMAIN list : m # n => list[m] # list[n]

\* C2: an enumeration, without omitSymLinks, of a directory that has entries
\* under it yields the basename of every immediate child once and nothing
\* else. Stated of the enumerations that made no out-of-bounds read.
C2_EnumerateChildrenOnce ==
    (/\ dirq.op = "enumerate" /\ dirq.pc = "done"
     /\ ~dirq.omit /\ ~dirq.ub
     /\ IsDirectoryName(Trimmed(dirq.dirname))) =>
        /\ NoDuplicates(dirq.out)
        /\ {dirq.out[m] : m \in DOMAIN dirq.out} = Children(Trimmed(dirq.dirname))

\* The entry at the end of the symlink chain that starts at entry k.
FinalTarget(k) == Chase(k, Len(entries))

\* C3: ZIP_isDirectory(name) returns 1 exactly when some entry lies under
\* name, or name is a symlink whose final target is such a directory; for a
\* name that is no entry and no directory it sets ERR_NO_SUCH_FILE.
C3_IsDirectoryIffPrefix ==
    (/\ dirq.op = "isDirectory" /\ dirq.pc = "done"
     /\ ~dirq.ub /\ dirq.dirname # <<>>) =>
        /\ dirq.ret = 1 <=>
              \/ IsDirectoryName(Trimmed(dirq.dirname))
              \/ /\ zip_find_entry(entries, dirq.dirname) # NULL
                 /\ zip_entry_is_symlink(entries[zip_find_entry(entries, dirq.dirname)])
                 /\ FinalTarget(zip_find_entry(entries, dirq.dirname)) # NULL
                 /\ IsDirectoryName(
                        entries[FinalTarget(zip_find_entry(entries, dirq.dirname))].name)
        /\ (/\ zip_find_entry(entries, dirq.dirname) = NULL
            /\ ~IsDirectoryName(Trimmed(dirq.dirname))) =>
               dirq.ret = 0 /\ dirq.err = ERR_NO_SUCH_FILE

(***************************************************************************)
(* Locating the end-of-central-directory record.                           *)
(*                                                                         *)
(* The file is image.data; a signature is the four bytes readui32 decodes  *)
(* to it. The scan buffer and the scan limit are scaled: ScanBufSize       *)
(* stands for sizeof(buf) = 256 and MaxCommentLen for the largest comment  *)
(* a 16-bit length field can announce.                                     *)
(***************************************************************************)
ScanBufSize == 8
MaxCommentLen == 7

ZIP_LOCAL_FILE_SIG == <<80, 75, 3, 4>>
ZIP_CENTRAL_DIR_SIG == <<80, 75, 1, 2>>
ZIP_END_OF_CENTRAL_DIR_SIG == <<80, 75, 5, 6>>
\* The size of the record without its comment.
EOCD_FIXED == 22
\* The scan gives up after this many bytes (65557 in the code).
ScanLimit == EOCD_FIXED + MaxCommentLen

ERR_NOT_AN_ARCHIVE == "NotAnArchive"
ERR_UNSUPPORTED_ARCHIVE == "UnsupportedArchive"
ERR_OUT_OF_MEMORY == "OutOfMemory"

\* __PHYSFS_platformSeek is handed filepos as an unsigned 64-bit number: a
\* negative filepos is a position far past the end of any file.
PlatformSeek(pos) == 0 <= pos /\ pos <= image.len

\* buf[i], 0-based; a byte of the buffer that was never written reads as 0.
BufAt(buf, i) == IF i + 1 <= Len(buf) THEN buf[i + 1] ELSE 0
FirstFour(buf) == <<BufAt(buf, 0), BufAt(buf, 1), BufAt(buf, 2), BufAt(buf, 3)>>

\* Lines 478-488: the index the for loop stops at, 0 or less when the
\* signature was not seen.
RECURSIVE ScanWindow(_, _)
ScanWindow(buf, i) ==
    IF i <= 0 THEN i
    ELSE IF <<BufAt(buf, i), BufAt(buf, i + 1), BufAt(buf, i + 2), BufAt(buf, i + 3)>>
            = ZIP_END_OF_CENTRAL_DIR_SIG
    THEN i
    ELSE ScanWindow(buf, i - 1)

RECURSIVE FindEocdLoop(_, _, _, _, _)
\* Lines 476-493, the window being in buf.
FindEocdScanned(filelen, filepos, maxread, totalread, buf, i) ==
    IF i > 0
    THEN [ret |-> filepos + i, len |-> filelen, err |-> NoError]
    ELSE FindEocdLoop(filelen, filepos - (maxread - 4), maxread, totalread,
                      FirstFour(buf))

\* Lines 462-474: the read of one window; after the first window the last
\* four bytes are the first four of the window before.
FindEocdRead(filelen, filepos, maxread, totalread, extra, r, want) ==
    IF r.n # 1
    THEN [ret |-> -1, len |-> 0, err |-> NoError]
    ELSE FindEocdScanned(filelen, filepos, maxread, totalread + want,
                         IF totalread # 0 THEN r.bytes \o extra ELSE r.bytes,
                         ScanWindow(IF totalread # 0 THEN r.bytes \o extra ELSE r.bytes,
                                    maxread - 4))

\* Lines 457-494: the while loop.
FindEocdLoop(filelen, filepos, maxread, totalread, extra) ==
    IF ~(totalread < filelen /\ totalread < ScanLimit)
    THEN [ret |-> -1, len |-> 0, err |-> ERR_NOT_AN_ARCHIVE]
    ELSE IF ~PlatformSeek(filepos)
    THEN [ret |-> -1, len |-> 0, err |-> NoError]
    ELSE FindEocdRead(filelen, filepos, maxread, totalread, extra,
                      PlatformRead(filepos, IF totalread # 0 THEN maxread - 4 ELSE maxread, 1),
                      IF totalread # 0 THEN maxread - 4 ELSE maxread)

\* zip_find_end_of_central_dir(in, &len) on the file image: ret is the
\* offset of the signature or -1, len the file length, err the error set.
zip_find_end_of_central_dir ==
    IF ScanBufSize < image.len
    THEN FindEocdLoop(image.len, image.len - ScanBufSize, ScanBufSize, 0, <<0, 0, 0, 0>>)
    ELSE FindEocdLoop(image.len, 0, image.len, 0, <<0, 0, 0, 0>>)

\* ZIP_isArchive(filename, forWriting): 1 or 0.
IsArchiveSig(r) ==
    IF r.n # 1 THEN 0
    ELSE IF r.bytes = ZIP_LOCAL_FILE_SIG THEN 1
    ELSE IF zip_find_end_of_central_dir.ret = -1 THEN 1 ELSE 0

ZIP_isArchive == IsArchiveSig(PlatformRead(0, 4, 1))

(***************************************************************************)
(* SpecScan: the locator and ZIP_isArchive applied to files of every       *)
(* length up to MaxScanLen that hold the end-of-central-directory          *)
(* signature at no, one or two places and may start with the local file    *)
(* header signature; every other byte is 0.                                *)
(***************************************************************************)
MaxScanLen == 31

\* The byte at 0-based offset o of a file with the signature sig at the
\* offsets in at, and the bytes lead at its start.
ScanByte(o, at, lead) ==
    IF \E p \in at : p <= o /\ o < p + 4
    THEN ZIP_END_OF_CENTRAL_DIR_SIG[o - (CHOOSE p \in at : p <= o /\ o < p + 4) + 1]
    ELSE IF o < Len(lead) THEN lead[o + 1]
    ELSE 0

ScanFile(len, at, lead) ==
    [len |-> len, hdr |-> <<>>, data |-> [i \in 1..len |-> ScanByte(i - 1, at, lead)]]

ScanPlaces(len) ==
    {{}} \cup {{p} : p \in 0..(len - 4)}
         \cup UNION {{{p, q} : q \in (p + 4)..(len - 4)} : p \in 0..(len - 4)}

ScanFiles ==
    UNION {{ScanFile(len, at, lead) :
                at \in ScanPlaces(len), lead \in {<<>>, ZIP_LOCAL_FILE_SIG}} :
           len \in 0..MaxScanLen}

InitScan ==
    /\ image \in ScanFiles
    /\ entries = <<>>
    /\ finfo = NoFile
    /\ hist = <<>>
    /\ seeked = FALSE
    /\ stack = <<>>
    /\ call = Idle
    /\ result = NoResult
    /\ dirq = NoQuery
    /\ heap = EmptyHeap
    /\ peer = NoFile
    /\ handles = NoHandles

Located(r) ==
    result' = [op |-> "locate", ret |-> r.ret, len |-> r.len, err |-> r.err]

ScanLocate ==
    /\ Located(zip_find_end_of_central_dir)
    /\ UNCHANGED <<mountVars, image, entries, finfo, hist, seeked, stack, call, dirq>>

ScanIsArchive ==
    /\ result' = [op |-> "isArchive", ret |-> ZIP_isArchive, len |-> image.len,
                  err |-> NoError]
    /\ UNCHANGED <<mountVars, image, entries, finfo, hist, seeked, stack, call, dirq>>

NextScan ==
    \/ ScanLocate
    \/ ScanIsArchive

SpecScan == InitScan /\ [][NextScan]_vars

\* The offsets of the file at which the signature stands.
SigPlaces ==
    {p \in 0..(image.len - 4) :
        Slice(image.data, p + 1, p + 4) = ZIP_END_OF_CENTRAL_DIR_SIG}
\* The last of them.
LastSig == CHOOSE p \in SigPlaces : \A q \in SigPlaces : q <= p

\* C11: isArchive answers 1 exactly when the file starts with the local file
\* header signature or the locator finds an end-of-central-directory
\* signature.
C11_IsArchiveIffSignature ==
    result.op = "isArchive" =>
        (result.ret = 1 <=>
            \/ (image.len >= 4 /\ Slice(image.data, 1, 4) = ZIP_LOCAL_FILE_SIG)
            \/ zip_find_end_of_central_dir.ret # -1)

\* C12: when the last signature of the file is within the scan limit of the
\* end of the file the locator returns its offset and the file length; with
\* no signature in the file it fails with NotAnArchive.
C12_LocatorFindsLastSignature ==
    result.op = "locate" =>
        IF SigPlaces = {}
        THEN result.ret = -1 /\ result.err = ERR_NOT_AN_ARCHIVE
        ELSE image.len - LastSig <= ScanLimit =>
                 result.ret = LastSig /\ result.len = image.len

(***************************************************************************)
(* Mounting: zip_parse_end_of_central_dir, zip_load_entries and            *)
(* ZIP_openArchive.                                                        *)
(*                                                                         *)
(* The archive file carries, besides its bytes, the fields of the records  *)
(* that start at an offset: image.cdir for central directory records and   *)
(* image.eocd for end-of-central-directory records. Signatures, names and  *)
(* short reads are decided by the bytes and the length of the file. A      *)
(* 32-bit field is a number below WordMod; a 32-bit field the code splits  *)
(* into halves is kept as its halves.                                      *)
(***************************************************************************)
CENTRAL_FIXED == 46
UNIX_FILETYPE_MASK == 61440
UNIX_FILETYPE_SYMLINK == 40960
ZIP_QUICKSORT_THRESHOLD == 4

\* readui32 / readui16 at pos: whether the bytes are there.
CanRead(pos, width) == PlatformRead(pos, width, 1).n = 1

zip_version_does_symlinks(version) ==
    (version \div 256) % 256 \notin {0, 1, 2, 4, 6, 11, 14, 13, 15, 18}

\* (xattr & UNIX_FILETYPE_MASK), the mask being the top four bits of xattr.
FileType(xattr) == (xattr \div 4096) * 4096

zip_has_symlink_attr(entry, extern_attr) ==
    /\ zip_version_does_symlinks(entry.version)
    /\ entry.uncompressed_size > 0
    /\ FileType(extern_attr.hi) = UNIX_FILETYPE_SYMLINK

\* The calendar time mktime is handed, kept broken down: year, month, day,
\* hour, minute, second.
zip_dos_time_to_physfs_time(dostime) ==
    <<((dostime.hi \div 512) % 128) + 80, ((dostime.hi \div 32) % 16) - 1, dostime.hi % 32,
      (dostime.lo \div 2048) % 32, (dostime.lo \div 32) % 64, (dostime.lo * 2) % 64>>

\* As EntryOfRecord, without entry->offset += ofs_fixup.
EntryOfRecordRawOffset(c, ofs_fixup) ==
    [name |-> <<>>, symlink |-> NULL, resolved |-> ZIP_UNRESOLVED_FILE,
     offset |-> c.offset,
     version |-> c.version, version_needed |-> c.version_needed,
     compression_method |-> c.compression_method, crc |-> c.crc,
     compressed_size |-> c.compressed_size,
     uncompressed_size |-> c.uncompressed_size,
     last_mod_time |-> zip_dos_time_to_physfs_time(c.dostime)]

\* zip_load_entry, lines 904-924: the entry made of the fixed fields c.
EntryOfRecord(c, ofs_fixup) ==
    [name |-> <<>>, symlink |-> NULL, resolved |-> ZIP_UNRESOLVED_FILE,
     offset |-> U32(c.offset + ofs_fixup),
     version |-> c.version, version_needed |-> c.version_needed,
     compression_method |-> c.compression_method, crc |-> c.crc,
     compressed_size |-> c.compressed_size,
     uncompressed_size |-> c.uncompressed_size,
     last_mod_time |-> zip_dos_time_to_physfs_time(c.dostime)]

Classified(entry, c) ==
    [entry EXCEPT !.resolved = IF zip_has_symlink_attr(entry, c.external_attr)
                               THEN ZIP_UNRESOLVED_SYMLINK ELSE ZIP_UNRESOLVED_FILE]

\* zip_load_entry, lines 926-947: the name is read and the cursor moved to
\* the next record. named tells whether the name was allocated, and freed
\* again on failure.
LoadEntryName(entry, c, pos, r) ==
    IF r.n # 1
    THEN [ok |-> FALSE, err |-> NoError, named |-> TRUE, entry |-> entry, pos |-> pos]
    ELSE IF ~PlatformSeek(r.pos + c.extralen + c.commentlen)
    THEN [ok |-> FALSE, err |-> NoError, named |-> TRUE, entry |-> entry, pos |-> pos]
    ELSE [ok |-> TRUE, err |-> NoError, named |-> TRUE,
          entry |-> [entry EXCEPT !.name =
                        CString(zip_convert_dos_path(entry, r.bytes \o <<NUL>>), 0)],
          pos |-> r.pos + c.extralen + c.commentlen]

\* zip_load_entry(in, entry, ofs_fixup) with the cursor of in at pos.
zip_load_entry(pos, ofs_fixup) ==
    IF ~CanRead(pos, 4)
    THEN [ok |-> FALSE, err |-> NoError, named |-> FALSE, entry |-> <<>>, pos |-> pos]
    ELSE IF PlatformRead(pos, 4, 1).bytes # ZIP_CENTRAL_DIR_SIG
    THEN [ok |-> FALSE, err |-> ERR_CORRUPTED, named |-> FALSE, entry |-> <<>>, pos |-> pos]
    ELSE IF ~CanRead(pos, CENTRAL_FIXED)
    THEN [ok |-> FALSE, err |-> NoError, named |-> FALSE, entry |-> <<>>, pos |-> pos]
    ELSE LoadEntryName(Classified(EntryOfRecord(image.cdir[pos], ofs_fixup), image.cdir[pos]),
                       image.cdir[pos], pos,
                       PlatformRead(pos + CENTRAL_FIXED, image.cdir[pos].fnamelen, 1))

BlockDirHandle == <<"DirHandle", 0>>
BlockInfo == <<"ZIPinfo", 0>>
BlockArchiveName == <<"archiveName", 0>>
BlockEntries == <<"entries", 0>>
BlockName(i) == <<"name", i>>
BlockIn == <<"in", 0>>

\* zip_free_entries(entries, max): the names of the first max entries, then
\* the table.
RECURSIVE FreeNames(_, _)
FreeNames(h, max) == IF max = 0 THEN h ELSE Free(FreeNames(h, max - 1), BlockName(max))

zip_free_entries(h, max) == Free(FreeNames(h, max), BlockEntries)

\* As InsertionInner, entries with a smaller name being moved up.
RECURSIVE InsertionInnerDescending(_, _, _, _)
InsertionInnerDescending(a, j, lo, tmp) ==
    IF j > lo /\ Strcmp(a[j].name, tmp.name) < 0
    THEN InsertionInnerDescending([a EXCEPT ![j + 1] = a[j]], j - 1, lo, tmp)
    ELSE [a EXCEPT ![j + 1] = tmp]

\* zip_insertion_sort(a, lo, hi), indices 0-based as in the code.
RECURSIVE InsertionInner(_, _, _, _)
InsertionInner(a, j, lo, tmp) ==
    IF j > lo /\ Strcmp(a[j].name, tmp.name) > 0
    THEN InsertionInner([a EXCEPT ![j + 1] = a[j]], j - 1, lo, tmp)
    ELSE [a EXCEPT ![j + 1] = tmp]

RECURSIVE InsertionOuter(_, _, _, _)
InsertionOuter(a, i, lo, hi) ==
    IF i <= hi THEN InsertionOuter(InsertionInner(a, i, lo, a[i + 1]), i + 1, lo, hi)
    ELSE a

\* As zip_insertion_sort, the table being left as it was loaded.
InsertionSortSkipped(a, lo, hi) == a

zip_insertion_sort(a, lo, hi) == InsertionOuter(a, lo + 1, lo, hi)

\* zip_quick_sort(a, lo, hi) partitions only when hi - lo, an unsigned
\* difference, is above the threshold.
QuickSortPartitions(lo, hi) == U32(hi - lo) > ZIP_QUICKSORT_THRESHOLD

\* zip_sort_entries(entries, max). With max = 0 the bound max - 1 is the
\* largest unsigned number and both sorts run over memory that is not the
\* table's: ub. Otherwise zip_quick_sort, called for max <= 4 only, returns
\* at once and the insertion sort does the work.
zip_sort_entries(a, max) ==
    IF max = 0 \/ (max <= ZIP_QUICKSORT_THRESHOLD /\ QuickSortPartitions(0, U32(max - 1)))
    THEN [a |-> a, ub |-> TRUE]
    ELSE [a |-> zip_insertion_sort(a, 0, max - 1), ub |-> FALSE]

\* zip_load_entries, lines 1036-1047: the loop over the records and the
\* sort. i entries are loaded into tab and the cursor is at pos.
RECURSIVE LoadEntriesLoop(_, _, _, _, _, _)
LoadEntriesNext(tab, i, max, data_ofs, h, r) ==
    IF ~r.ok
    THEN [ok |-> FALSE, err |-> r.err, entries |-> <<>>, ub |-> FALSE,
          heap |-> zip_free_entries(IF r.named
                                    THEN Free(Malloc(h, BlockName(i + 1)), BlockName(i + 1))
                                    ELSE h, i)]
    ELSE LoadEntriesLoop(Append(tab, r.entry), i + 1, max, r.pos, data_ofs,
                         Malloc(h, BlockName(i + 1)))

LoadEntriesSorted(s, h) ==
    [ok |-> TRUE, err |-> NoError, entries |-> s.a, ub |-> s.ub, heap |-> h]

LoadEntriesLoop(tab, i, max, pos, data_ofs, h) ==
    IF i < max
    THEN LoadEntriesNext(tab, i, max, data_ofs, h, zip_load_entry(pos, data_ofs))
    ELSE LoadEntriesSorted(zip_sort_entries(tab, max), h)

\* zip_load_entries(in, dirh, data_ofs, central_ofs), max being
\* info->entryCount. malloc(0) may return NULL: nullOnZero.
zip_load_entries(max, data_ofs, central_ofs, h, nullOnZero) ==
    IF ~PlatformSeek(central_ofs)
    THEN [ok |-> FALSE, err |-> NoError, entries |-> <<>>, ub |-> FALSE, heap |-> h]
    ELSE IF max = 0 /\ nullOnZero
    THEN [ok |-> FALSE, err |-> ERR_OUT_OF_MEMORY, entries |-> <<>>, ub |-> FALSE, heap |-> h]
    ELSE LoadEntriesLoop(<<>>, 0, max, central_ofs, data_ofs, Malloc(h, BlockEntries))

\* zip_parse_end_of_central_dir: the record e was found at pos in a file of
\* len bytes.
EocdFail(err) ==
    [ok |-> FALSE, err |-> err, entryCount |-> 0, data_start |-> 0, central_dir_ofs |-> 0]

ParseEocdTail(pos, len, e) ==
    IF pos < U32(e.cdir_ofs + e.cdir_size) THEN EocdFail(ERR_UNSUPPORTED_ARCHIVE)
    ELSE IF ~CanRead(pos + 20, 2) THEN EocdFail(NoError)
    ELSE IF pos + EOCD_FIXED + e.comment_len # len THEN EocdFail(ERR_UNSUPPORTED_ARCHIVE)
    ELSE [ok |-> TRUE, err |-> NoError, entryCount |-> e.entries_total,
          data_start |-> U32(pos - U32(e.cdir_ofs + e.cdir_size)),
          central_dir_ofs |->
              U32(e.cdir_ofs + U32(pos - U32(e.cdir_ofs + e.cdir_size)))]

ParseEocdFields(pos, len, e) ==
    IF ~CanRead(pos + 4, 2) THEN EocdFail(NoError)
    ELSE IF e.disk # 0 THEN EocdFail(ERR_UNSUPPORTED_ARCHIVE)
    ELSE IF ~CanRead(pos + 6, 2) THEN EocdFail(NoError)
    ELSE IF e.cdisk # 0 THEN EocdFail(ERR_UNSUPPORTED_ARCHIVE)
    ELSE IF ~CanRead(pos + 8, 2) \/ ~CanRead(pos + 10, 2) THEN EocdFail(NoError)
    ELSE IF e.entries_disk # e.entries_total THEN EocdFail(ERR_UNSUPPORTED_ARCHIVE)
    ELSE IF ~CanRead(pos + 12, 4) \/ ~CanRead(pos + 16, 4) THEN EocdFail(NoError)
    ELSE ParseEocdTail(pos, len, e)

ParseEocdAt(f) ==
    IF f.ret = -1 THEN EocdFail(f.err)
    ELSE IF ~PlatformSeek(f.ret) \/ ~CanRead(f.ret, 4) THEN EocdFail(NoError)
    ELSE IF PlatformRead(f.ret, 4, 1).bytes # ZIP_END_OF_CENTRAL_DIR_SIG
    THEN EocdFail(ERR_NOT_AN_ARCHIVE)
    ELSE ParseEocdFields(f.ret, f.len, image.eocd[f.ret])

zip_parse_end_of_central_dir == ParseEocdAt(zip_find_end_of_central_dir)

\* zip_allocate_dirhandle(name)
zip_allocate_dirhandle(h) ==
    Malloc(Malloc(Malloc(h, BlockDirHandle), BlockInfo), BlockArchiveName)

\* ZIP_openArchive, lines 1178-1198: the clean-up and the close of in.
OpenArchiveEnd(success, h) ==
    Free(IF success THEN h
         ELSE Free(Free(Free(h, BlockArchiveName), BlockInfo), BlockDirHandle),
         BlockIn)

OpenArchiveLoaded(p, l) ==
    [ret |-> IF l.ok THEN 1 ELSE 0, err |-> l.err, entries |-> l.entries, ub |-> l.ub,
     entryCount |-> p.entryCount, data_start |-> p.data_start,
     central_dir_ofs |-> p.central_dir_ofs, heap |-> OpenArchiveEnd(l.ok, l.heap)]

OpenArchiveParsed(p, h, nullOnZero) ==
    IF ~p.ok
    THEN [ret |-> 0, err |-> p.err, entries |-> <<>>, ub |-> FALSE,
          entryCount |-> 0, data_start |-> 0, central_dir_ofs |-> 0,
          heap |-> OpenArchiveEnd(FALSE, h)]
    ELSE OpenArchiveLoaded(p, zip_load_entries(p.entryCount, p.data_start,
                                                p.central_dir_ofs, h, nullOnZero))

\* ZIP_openArchive(name, forWriting = 0) with the heap h.
ZIP_openArchive(h, nullOnZero) ==
    OpenArchiveParsed(zip_parse_end_of_central_dir,
                      zip_allocate_dirhandle(Malloc(h, BlockIn)), nullOnZero)

\* ZIP_dirClose(h) of an archive with entryCount entries.
ZIP_dirClose(h, entryCount) ==
    Free(Free(Free(Free(zip_free_entries(h, entryCount), BlockEntries),
                   BlockArchiveName), BlockInfo), BlockDirHandle)

(***************************************************************************)
(* Archive files with their central directory and end record.              *)
(***************************************************************************)
\* The central directory record of the k-th member: written on Unix
\* (version 3.0), dated 2001-02-03 04:05:06.
CentralOf(members, k) ==
    [version |-> 768, version_needed |-> 20,
     compression_method |-> members[k].method,
     dostime |-> [hi |-> 10819, lo |-> 8355], crc |-> 1,
     compressed_size |-> Len(members[k].data),
     uncompressed_size |-> members[k].usize,
     fnamelen |-> Len(members[k].name), extralen |-> 0, commentlen |-> 0,
     external_attr |-> [hi |-> IF members[k].resolved = ZIP_UNRESOLVED_SYMLINK
                               THEN 41471 ELSE 33188,
                        lo |-> 0],
     offset |-> HeaderOffset(members, k)]

RECURSIVE CentralOffset(_, _)
CentralOffset(members, k) ==
    IF k = 1 THEN Len(ImageData(members))
    ELSE CentralOffset(members, k - 1) + CENTRAL_FIXED + Len(members[k - 1].name)

RECURSIVE CentralData(_)
CentralData(members) ==
    IF members = <<>> THEN <<>>
    ELSE ZIP_CENTRAL_DIR_SIG \o Zeros(CENTRAL_FIXED - 4) \o Head(members).name
             \o CentralData(Tail(members))

EocdOf(members, comment) ==
    [disk |-> 0, cdisk |-> 0, entries_disk |-> Len(members),
     entries_total |-> Len(members), cdir_size |-> Len(CentralData(members)),
     cdir_ofs |-> Len(ImageData(members)), comment_len |-> Len(comment)]

\* The archive of the members with a comment; at is the offset of its end
\* record.
ArchiveOf(members, comment) ==
    [len |-> Len(ImageData(members)) + Len(CentralData(members)) + EOCD_FIXED
                 + Len(comment),
     pre |-> 0,
     at |-> Len(ImageData(members)) + Len(CentralData(members)),
     hdr |-> ImageOf(members).hdr,
     data |-> ImageData(members) \o CentralData(members)
                  \o ZIP_END_OF_CENTRAL_DIR_SIG \o Zeros(EOCD_FIXED - 4) \o comment,
     cdir |-> [off \in {CentralOffset(members, k) : k \in 1..Len(members)} |->
                  CentralOf(members,
                      CHOOSE k \in 1..Len(members) : CentralOffset(members, k) = off)],
     eocd |-> [off \in {Len(ImageData(members)) + Len(CentralData(members))} |->
                  EocdOf(members, comment)]]

\* The records of m, each n bytes further on.
Shifted(m, n) == [off \in {o + n : o \in DOMAIN m} |-> m[off - n]]

\* The file f with the n bytes junk placed before it.
Prepended(f, junk) ==
    [len |-> f.len + Len(junk), pre |-> f.pre + Len(junk), at |-> f.at + Len(junk),
     hdr |-> Shifted(f.hdr, Len(junk)), data |-> junk \o f.data,
     cdir |-> Shifted(f.cdir, Len(junk)), eocd |-> Shifted(f.eocd, Len(junk))]

\* The file f with a field of its end record, or of the central directory
\* record at off, or one of its bytes, replaced.
WithEocd(f, field, value) == [f EXCEPT !.eocd[f.at][field] = value]
WithCentral(f, off, field, value) == [f EXCEPT !.cdir[off][field] = value]
WithByte(f, off, value) == [f EXCEPT !.data[off + 1] = value]

MountMember(name, data) == Member(name, ZIP_UNRESOLVED_FILE, COMPMETH_NONE, data, Len(data), TRUE)

\* "b", "a" -> "b", "d/c": in no order.
MembersThree == <<MountMember(NameB, <<11, 12>>), Link(NameA, NameB), MountMember(NameDC, <<13>>)>>
\* "t"
MembersOne == <<MountMember(NameT, <<11, 12, 13>>)>>
\* "e", "d", "c", "b", "a": more than ZIP_QUICKSORT_THRESHOLD entries.
MembersFive ==
    <<MountMember(<<101>>, <<1>>), MountMember(<<100>>, <<2>>), MountMember(<<99>>, <<3>>),
      MountMember(NameB, <<4>>), MountMember(NameA, <<5>>)>>

MountNames == {NameA, NameB, NameDC, NameT, <<101>>, NameMissing}

ArchiveThree == ArchiveOf(MembersThree, <<>>)
ArchiveOne == ArchiveOf(MembersOne, <<9, 9>>)
\* Two records are announced and the first is followed by 22 bytes of extra
\* field: the second is looked for in the comment, which starts like a
\* central directory record.
ArchiveRecordInComment ==
    WithCentral(WithEocd(WithEocd(ArchiveOf(MembersOne, ZIP_CENTRAL_DIR_SIG \o <<0, 0>>),
                                  "entries_disk", 2), "entries_total", 2),
                CentralOffset(MembersOne, 1), "extralen", EOCD_FIXED)

MountArchives ==
    {ArchiveThree, ArchiveOne, ArchiveOf(MembersFive, <<>>), ArchiveOf(<<>>, <<9>>),
     WithEocd(ArchiveThree, "disk", 1),
     WithEocd(ArchiveThree, "cdisk", 1),
     WithEocd(ArchiveThree, "entries_disk", 2),
     WithEocd(ArchiveThree, "cdir_size", ArchiveThree.eocd[ArchiveThree.at].cdir_size + 1),
     WithEocd(ArchiveThree, "cdir_ofs", WordMod - 1),
     WithEocd(ArchiveOne, "comment_len", 3),
     WithEocd(WithEocd(ArchiveOne, "entries_disk", 2), "entries_total", 2),
     WithByte(ArchiveThree, CentralOffset(MembersThree, 2), 0),
     WithCentral(ArchiveThree, CentralOffset(MembersThree, 3), "fnamelen", 200),
     ArchiveRecordInComment}

(***************************************************************************)
(* SpecMount: an archive file is mounted, queried and unmounted; between   *)
(* two mounts bytes may be placed before it. hist keeps what each mount    *)
(* returned and what it left behind.                                       *)
(***************************************************************************)
MaxPrepend == 4
Crashed == [op |-> "crashed"]

Mounted == BlockInfo \in heap.live

\* What a reader of entry e finds in the file: the local header at
\* e.offset, and the bytes that follow it.
LocalSeen(e) ==
    IF e.offset \in DOMAIN image.hdr
    THEN [hdr |-> {image.hdr[e.offset]},
          data |-> Slice(image.data,
                         e.offset + LOCAL_HEADER_FIXED + image.hdr[e.offset].fnamelen
                             + image.hdr[e.offset].extralen + 1,
                         e.offset + LOCAL_HEADER_FIXED + image.hdr[e.offset].fnamelen
                             + image.hdr[e.offset].extralen + e.compressed_size)]
    ELSE [hdr |-> {}, data |-> <<>>]

InitMount ==
    /\ image \in MountArchives
    /\ entries = <<>>
    /\ finfo = NoFile
    /\ hist = <<>>
    /\ seeked = FALSE
    /\ stack = <<>>
    /\ call = Idle
    /\ result = NoResult
    /\ dirq = NoQuery
    /\ heap = EmptyHeap
    /\ peer = NoFile
    /\ handles = NoHandles

\* ZIP_openArchive returned r.
OpenArchiveReturns(r) ==
    /\ entries' = r.entries
    /\ heap' = r.heap
    /\ result' = [op |-> "openArchive", name |-> <<>>, ret |-> r.ret, err |-> r.err,
                  ub |-> r.ub, entryCount |-> r.entryCount,
                  data_start |-> r.data_start, central_dir_ofs |-> r.central_dir_ofs]
    /\ hist' = Append(hist, [pre |-> image.pre, ret |-> r.ret, err |-> r.err,
                             ub |-> r.ub, entries |-> r.entries,
                             data_start |-> r.data_start,
                             central_dir_ofs |-> r.central_dir_ofs,
                             seen |-> [k \in 1..Len(r.entries) |-> LocalSeen(r.entries[k])]])
    /\ UNCHANGED call

\* The sorts ran over memory that is not the table's: the process is
\* stopped there, or the call returns.
OpenArchiveOutcome(r, stopped) ==
    IF r.ub /\ stopped
    THEN call' = Crashed /\ UNCHANGED <<entries, heap, result, hist>>
    ELSE OpenArchiveReturns(r)

MountOpenArchive(nullOnZero, stopped) ==
    /\ call = Idle
    /\ ~Mounted
    /\ Len(hist) < 2
    /\ OpenArchiveOutcome(ZIP_openArchive(heap, nullOnZero), stopped)
    /\ UNCHANGED <<peer, handles, image, finfo, seeked, stack, dirq>>

MountDirClose ==
    /\ call = Idle
    /\ Mounted
    /\ heap' = ZIP_dirClose(heap, Len(entries))
    /\ entries' = <<>>
    /\ result' = [op |-> "dirClose", name |-> <<>>, ret |-> 1, err |-> NoError,
                  ub |-> FALSE, entryCount |-> 0, data_start |-> 0,
                  central_dir_ofs |-> 0]
    /\ UNCHANGED <<peer, handles, image, finfo, hist, seeked, stack, call, dirq>>

\* The file is replaced by one with junk before it.
MountPrepend(junk) ==
    /\ call = Idle
    /\ ~Mounted
    /\ Len(hist) = 1
    /\ image.pre = 0
    /\ image' = Prepended(image, junk)
    /\ UNCHANGED <<mountVars, entries, finfo, hist, seeked, stack, call, result, dirq>>

Answer(op, name, ret, err) ==
    result' = [op |-> op, name |-> name, ret |-> ret, err |-> err,
               ub |-> FALSE, entryCount |-> 0, data_start |-> 0, central_dir_ofs |-> 0]

\* ZIP_exists(h, name)
ZIP_exists(e) == IF e # NULL THEN 1 ELSE 0

\* ZIP_isSymLink(h, name)
ZIP_isSymLink(e) == IF e = NULL THEN 0 ELSE IF zip_entry_is_symlink(entries[e]) THEN 1 ELSE 0

MountExists(name) ==
    /\ call = Idle
    /\ Mounted
    /\ Answer("exists", name, ZIP_exists(zip_find_entry(entries, name)),
              IF zip_find_entry(entries, name) = NULL THEN ERR_NO_SUCH_FILE ELSE NoError)
    /\ UNCHANGED <<mountVars, image, entries, finfo, hist, seeked, stack, call, dirq>>

MountIsSymLink(name) ==
    /\ call = Idle
    /\ Mounted
    /\ Answer("isSymLink", name, ZIP_isSymLink(zip_find_entry(entries, name)),
              IF zip_find_entry(entries, name) = NULL THEN ERR_NO_SUCH_FILE ELSE NoError)
    /\ UNCHANGED <<mountVars, image, entries, finfo, hist, seeked, stack, call, dirq>>

NextMount ==
    \/ \E nullOnZero, stopped \in BOOLEAN : MountOpenArchive(nullOnZero, stopped)
    \/ MountDirClose
    \/ \E n \in 1..MaxPrepend : MountPrepend([i \in 1..n |-> 7])
    \/ \E name \in MountNames : MountExists(name)
    \/ \E name \in MountNames : MountIsSymLink(name)

SpecMount == InitMount /\ [][NextMount]_vars

(***************************************************************************)
(* Claims about mounting, checked under SpecMount.                         *)
(***************************************************************************)
\* The end record of the mounted file, which holds one.
TheEocd == image.eocd[image.at]

C14_EveryEntryIsFound ==
    (Mounted /\ \A j, k \in 1..Len(entries) : entries[j].name = entries[k].name => j = k) =>
        /\ \A k \in 1..Len(entries) : zip_find_entry(entries, entries[k].name) = k
        /\ \A name \in MountNames :
               (\A k \in 1..Len(entries) : entries[k].name # name)
                   => zip_find_entry(entries, name) = NULL
        /\ result.op = "exists" =>
               /\ result.ret = 1 <=> \E k \in 1..Len(entries) : entries[k].name = result.name
               /\ result.ret = 0 => result.err = ERR_NO_SUCH_FILE
        /\ Len(entries) = TheEocd.entries_total

C14_Witness ==
    /\ Mounted
    /\ Len(entries) = 5
    /\ result.op = "exists" /\ result.ret = 1 /\ result.name = <<101>>

\* C15: a mount succeeds only when the end record passes every check on the
\* true values of its fields, and data_start is then the distance of the
\* end record from the end of the central directory.
C15_MountChecksTrueSums ==
    (result.op = "openArchive" /\ result.ret = 1) =>
        /\ TheEocd.disk = 0 /\ TheEocd.cdisk = 0
        /\ TheEocd.entries_disk = TheEocd.entries_total
        /\ image.at >= TheEocd.cdir_ofs + TheEocd.cdir_size
        /\ image.at + EOCD_FIXED + TheEocd.comment_len = image.len
        /\ result.data_start = image.at - (TheEocd.cdir_ofs + TheEocd.cdir_size)

\* C16: when the mount fails on a central directory record, by a short read
\* or by a wrong signature, the error is Corrupted, no table is left and
\* every block the mount took is given back once.
C16_FailedRecordIsCorrupted ==
    (result.op = "openArchive" /\ result.ret = 0 /\ result.entryCount > 0) =>
        /\ result.err = ERR_CORRUPTED
        /\ entries = <<>>
        /\ heap.live = {} /\ heap.twice = {}

\* C17: unmounting and closing give back every block they own once: no
\* block is freed twice, and with no archive mounted, no file open and no
\* call running no block is still held.
C17_ReleasedExactlyOnce ==
    /\ heap.twice = {}
    /\ (~Mounted /\ ~finfo.open /\ ~peer.open /\ call = Idle) => heap.live = {}

(***************************************************************************)
(* SpecPair: two files are open on the archive of SpecFile, each through a *)
(* handle of its own from the platform. handles.pos is the platform's      *)
(* cursor of every handle and handles.of the handle of finfo (file 1) and  *)
(* of peer (file 2); the field hpos of a ZIPfileinfo is not used here.     *)
(***************************************************************************)
FileNo(n) == IF n = 1 THEN finfo ELSE peer

\* The ZIPfileinfo of file n with the cursor its handle has.
WithCursor(n) == [FileNo(n) EXCEPT !.hpos = handles.pos[handles.of[n]]]

\* As zip_get_file_handle, the archive keeping one handle for all files.
GetFileHandleShared(hs, n, offset) ==
    [pos |-> [hs.pos EXCEPT ![1] = offset], of |-> [hs.of EXCEPT ![n] = 1]]

\* zip_get_file_handle for file n: __PHYSFS_platformOpenRead returns a
\* handle no open file has, and it is positioned at offset.
zip_get_file_handle(hs, n, offset) ==
    [pos |-> [hs.pos EXCEPT ![CHOOSE id \in 1..2 : id \notin {hs.of[1], hs.of[2]}] = offset],
     of |-> [hs.of EXCEPT ![n] = CHOOSE id \in 1..2 : id \notin {hs.of[1], hs.of[2]}]]

InitPair ==
    /\ image = FileImage
    /\ entries = FileEntries
    /\ finfo = NoFile
    /\ hist = <<>>
    /\ seeked = FALSE
    /\ stack = <<>>
    /\ call = Idle
    /\ result = NoResult
    /\ dirq = NoQuery
    /\ heap = EmptyHeap
    /\ peer = NoFile
    /\ handles = NoHandles

\* File n becomes f.
PairFile(n, f) ==
    /\ finfo' = IF n = 1 THEN f ELSE finfo
    /\ peer' = IF n = 2 THEN f ELSE peer

PairDid(op, n) == result' = [op |-> op, file |-> n]

PairOpenRead(n, e) ==
    /\ ~FileNo(n).open
    /\ entries[e].resolved = ZIP_RESOLVED
    /\ PairFile(n, OpenFileOn(e))
    /\ handles' = zip_get_file_handle(handles, n, OpenFileOn(e).hpos)
    /\ heap' = OpenReadHeap(heap, n, entries[OpenFileOn(e).entry].compression_method, "none")
    /\ PairDid("openRead", n)
    /\ UNCHANGED <<image, entries, hist, seeked, stack, call, dirq>>

PairRead(n, objSize, objCount) ==
    /\ FileNo(n).open
    /\ PairFile(n, ZIP_read(WithCursor(n), objSize, objCount).f)
    /\ handles' = [handles EXCEPT !.pos[handles.of[n]] =
                      ZIP_read(WithCursor(n), objSize, objCount).f.hpos]
    /\ PairDid("read", n)
    /\ UNCHANGED <<heap, image, entries, hist, seeked, stack, call, dirq>>

PairSeek(n, offset) ==
    /\ FileNo(n).open
    /\ PairFile(n, ZIP_seek(WithCursor(n), offset).f)
    /\ handles' = [handles EXCEPT !.pos[handles.of[n]] = ZIP_seek(WithCursor(n), offset).f.hpos]
    /\ PairDid("seek", n)
    /\ UNCHANGED <<heap, image, entries, hist, seeked, stack, call, dirq>>

PairClose(n) ==
    /\ FileNo(n).open
    /\ PairFile(n, NoFile)
    /\ handles' = [handles EXCEPT !.of[n] = 0]
    /\ heap' = ZIP_fileClose(heap, n, entries[FileNo(n).entry].compression_method)
    /\ PairDid("close", n)
    /\ UNCHANGED <<image, entries, hist, seeked, stack, call, dirq>>

NextPair ==
    \/ \E n \in 1..2, e \in DOMAIN entries : PairOpenRead(n, e)
    \/ \E n \in 1..2, objCount \in 0..MaxObjCount : PairRead(n, 1, objCount)
    \/ \E n \in 1..2, offset \in 0..MaxSeekOffset : PairSeek(n, offset)
    \/ \E n \in 1..2 : PairClose(n)

SpecPair == InitPair /\ [][NextPair]_vars

\* C18: a read, seek or close of one of two open files leaves the other
\* file as it was: its tell() and eof(), and everything its next reads are
\* computed from (its ZIPfileinfo with buffer, inflater and counters, the
\* cursor of its handle, the archive file); and it writes no entry.
C18_FilesAreIndependent ==
    [][\A n \in 1..2 :
          (FileNo(n).open /\ result'.op \in {"read", "seek", "close"} /\ result'.file # n) =>
              /\ ZIP_tell(WithCursor(n))' = ZIP_tell(WithCursor(n))
              /\ ZIP_eof(WithCursor(n))' = ZIP_eof(WithCursor(n))
              /\ WithCursor(n)' = WithCursor(n)
              /\ image' = image
              /\ entries' = entries]_vars

\* Both files are open on the deflated entry, each was read from, and the
\* second was read last.
C18_Witness ==
    /\ finfo.open /\ peer.open
    /\ finfo.entry = peer.entry
    /\ entries[finfo.entry].compression_method # COMPMETH_NONE
    /\ finfo.uncompressed_position = 1
    /\ peer.uncompressed_position = 3
    /\ result.op = "read" /\ result.file = 2


(***************************************************************************)
(* SpecLink: the archives of SpecResolve with ZIP_isSymLink and            *)
(* ZIP_isDirectory called between the calls of ZIP_openRead.               *)
(***************************************************************************)
LinkAnswer(op, name, ret, err) ==
    result' = [op |-> op, name |-> name, ret |-> ret, err |-> err, was |-> ZIP_RESOLVED]

LinkIsSymLink(name) ==
    /\ call = Idle
    /\ LinkAnswer("isSymLink", name, ZIP_isSymLink(zip_find_entry(entries, name)), NoError)
    /\ UNCHANGED <<mountVars, image, entries, finfo, hist, seeked, stack, call, dirq>>

\* ZIP_isDirectory between two calls; q is the query as it returns. A query
\* that reaches zip_resolve starts the resolver on the entry.
LinkIsDirectoryDone(name, q) ==
    /\ IF q.pc = "crashed" THEN result' = Crashed
       ELSE LinkAnswer("isDirectory", name, q.ret, q.err)
    /\ IF q.pc = "resolve"
       THEN /\ stack' = <<Frame(zip_find_entry(entries, name))>>
            /\ call' = [op |-> "isDirectory", name |-> name,
                        entry |-> zip_find_entry(entries, name), err |-> NoError,
                        was |-> ZIP_UNRESOLVED_SYMLINK]
       ELSE UNCHANGED <<stack, call>>

LinkIsDirectory(name, garbage) ==
    /\ call = Idle
    /\ LinkIsDirectoryDone(name, ZIP_isDirectory(name, garbage))
    /\ UNCHANGED <<mountVars, image, entries, finfo, hist, seeked, dirq>>

\* zip_resolve entered on an unresolved entry when the host fails it: a read
\* of zip_parse_local fails (ERR_IO, the offset is not moved), or the malloc
\* of the link buffer in zip_resolve_symlink fails after the local header
\* was parsed (ERR_OUT_OF_MEMORY).
EnterFails(frame, type, p, err) ==
    /\ type \in {ZIP_UNRESOLVED_FILE, ZIP_UNRESOLVED_SYMLINK}
    /\ err = ERR_OUT_OF_MEMORY => (type = ZIP_UNRESOLVED_SYMLINK /\ p.ok)
    /\ entries' = [entries EXCEPT ![frame.entry] =
                      [(IF err = ERR_IO THEN entries[frame.entry] ELSE p.entry)
                          EXCEPT !.resolved = ZIP_RESOLVING]]
    /\ Leaving(frame, type, 0, err)

LinkEnterFails(err) ==
    /\ stack # <<>>
    /\ Top.pc = "enter"
    /\ EnterFails(Top, entries[Top.entry].resolved, zip_parse_local(entries[Top.entry]), err)
    /\ UNCHANGED <<mountVars, image, finfo, hist, seeked, result, dirq>>

InitLink == InitResolve

NextLink ==
    /\ result # Crashed
    /\ \/ NextResolve
       \/ \E name \in OpenNames : LinkIsSymLink(name)
       \/ \E name \in OpenNames, garbage \in GarbageReads : LinkIsDirectory(name, garbage)

SpecLink == InitLink /\ [][NextLink]_vars

(***************************************************************************)
(* SpecHost: as SpecLink, on the archives where "b" is a stored link to    *)
(* "a" and "t" is stored, with a host that may fail a read or a malloc of  *)
(* the resolver.                                                           *)
(***************************************************************************)
HostArchives ==
    {members \in ResolveArchives :
        /\ members[2] = Link(NameB, NameA)
        /\ members[5].method = COMPMETH_NONE}

InitHost ==
    /\ \E members \in HostArchives :
           /\ image = ImageOf(members)
           /\ entries = EntriesOf(members)
    /\ finfo = NoFile
    /\ hist = <<>>
    /\ seeked = FALSE
    /\ stack = <<>>
    /\ call = Idle
    /\ result = NoResult
    /\ dirq = NoQuery
    /\ heap = EmptyHeap
    /\ peer = NoFile
    /\ handles = NoHandles

NextHost ==
    /\ result # Crashed
    /\ \/ NextResolve
       \/ \E err \in {ERR_IO, ERR_OUT_OF_MEMORY} : LinkEnterFails(err)
       \/ \E name \in OpenNames : LinkIsSymLink(name)
       \/ \E name \in OpenNames, garbage \in GarbageReads : LinkIsDirectory(name, garbage)

SpecHost == InitHost /\ [][NextHost]_vars

\* The table as ZIP_openArchive built it from the archive file.
MountTable == EntriesOf(CHOOSE members \in ResolveArchives : ImageOf(members) = image)
\* Entry k was classified as a symlink when the archive was mounted.
SymlinkAtMount(k) == MountTable[k].resolved = ZIP_UNRESOLVED_SYMLINK

\* C19: between calls, ZIP_isSymLink(name) returns 1 exactly when name is an
\* entry that was classified as a symlink at mount, whatever was resolved,
\* failed to resolve, opened or asked since; and every ZIP_isSymLink call
\* made returned this answer.
C19_IsSymLinkIsStable ==
    /\ (call = Idle /\ result # Crashed) =>
           \A name \in OpenNames :
               (ZIP_isSymLink(zip_find_entry(entries, name)) = 1) <=>
                   /\ zip_find_entry(entries, name) # NULL
                   /\ SymlinkAtMount(zip_find_entry(entries, name))
    /\ (result.op = "isSymLink") =>
           ((result.ret = 1) <=>
                /\ zip_find_entry(entries, result.name) # NULL
                /\ SymlinkAtMount(zip_find_entry(entries, result.name)))

\* isSymLink was asked of a link whose resolution had failed, in a table
\* that also holds a link resolved with success, an unresolved link and the
\* resolved regular file the chain ends in.
C19_Witness ==
    /\ result.op = "isSymLink" /\ result.ret = 1
    /\ entries[zip_find_entry(entries, result.name)].resolved = ZIP_BROKEN_SYMLINK
    /\ \E k \in DOMAIN entries :
           entries[k].resolved = ZIP_RESOLVED /\ entries[k].symlink # NULL
    /\ \E k \in DOMAIN entries : entries[k].resolved = ZIP_UNRESOLVED_SYMLINK
    /\ \E k \in DOMAIN entries :
           /\ entries[k].resolved = ZIP_RESOLVED /\ entries[k].symlink = NULL
           /\ \E j \in DOMAIN entries : entries[j].symlink = k


\* C20: in every state, an entry that is ZIP_RESOLVED has no symlink (a real
\* file) or its symlink is an entry that is ZIP_RESOLVED and has none; and a
\* ZIP_openRead that succeeded has bound the file, until it is closed, to
\* that final entry (the entry itself for a real file), which was no symlink
\* at mount, with the handle at the entry's data offset.
C20_LinksRecordFinalEntry ==
    /\ \A k \in DOMAIN entries :
           (entries[k].resolved = ZIP_RESOLVED /\ entries[k].symlink # NULL) =>
               /\ entries[entries[k].symlink].resolved = ZIP_RESOLVED
               /\ entries[entries[k].symlink].symlink = NULL
    /\ (result.op = "openRead" /\ result.ret = 1 /\ finfo.open) =>
           /\ finfo.entry =
                  IF entries[zip_find_entry(entries, result.name)].symlink # NULL
                  THEN entries[zip_find_entry(entries, result.name)].symlink
                  ELSE zip_find_entry(entries, result.name)
           /\ entries[finfo.entry].resolved = ZIP_RESOLVED
           /\ entries[finfo.entry].symlink = NULL
           /\ ~SymlinkAtMount(finfo.entry)
           /\ finfo.hpos = entries[finfo.entry].offset
           /\ finfo.hpos = zip_parse_local(MountTable[finfo.entry]).entry.offset

\* "d/c" was opened: it is a link to the link "a", and both record the
\* regular file "t" the chain ends in, which the file is bound to.
C20_Witness ==
    /\ result.op = "openRead" /\ result.ret = 1 /\ result.name = NameDC
    /\ finfo.open
    /\ LinkTarget(zip_find_entry(entries, NameDC)) = zip_find_entry(entries, NameA)
    /\ entries[zip_find_entry(entries, NameA)].symlink = zip_find_entry(entries, NameT)
    /\ entries[zip_find_entry(entries, NameDC)].symlink = zip_find_entry(entries, NameT)
    /\ finfo.entry = zip_find_entry(entries, NameT)


BrokenStates == {ZIP_BROKEN_FILE, ZIP_BROKEN_SYMLINK}
\* The state zip_resolve leaves entry k in when its resolution fails.
BrokenAs(k) == IF SymlinkAtMount(k) THEN ZIP_BROKEN_SYMLINK ELSE ZIP_BROKEN_FILE

\* C21: a zip_resolve that fails on an entry it had started to resolve
\* leaves the entry ZIP_BROKEN_FILE if it was a file and ZIP_BROKEN_SYMLINK
\* if it was a symlink; no step changes any field of a broken entry; and a
\* zip_resolve entered on a broken entry leaves at once with 0 and
\* ERR_CORRUPTED, no entry being written.
C21_BrokenStaysBroken ==
    [][/\ \A k \in DOMAIN entries :
              entries[k].resolved \in BrokenStates => entries'[k] = entries[k]
       /\ (/\ stack # <<>> /\ stack' # stack
           /\ Top.pc = "leave" /\ Top.retval = 0
           /\ Top.type \in {ZIP_UNRESOLVED_FILE, ZIP_UNRESOLVED_SYMLINK}) =>
              entries'[Top.entry].resolved = BrokenAs(Top.entry)
       /\ (/\ stack # <<>> /\ stack' # stack
           /\ Top.pc = "enter" /\ entries[Top.entry].resolved \in BrokenStates) =>
              /\ Len(stack') = Len(stack)
              /\ stack'[Len(stack)].pc = "leave"
              /\ stack'[Len(stack)].retval = 0
              /\ call'.err = ERR_CORRUPTED
              /\ entries' = entries]_vars

\* An openRead of a link that was broken by an earlier call has failed with
\* ERR_CORRUPTED, in a table that also holds a broken file.
C21_Witness ==
    /\ result.op = "openRead" /\ result.ret = 0
    /\ result.was = ZIP_BROKEN_SYMLINK
    /\ result.err = ERR_CORRUPTED
    /\ \E k \in DOMAIN entries : entries[k].resolved = ZIP_BROKEN_FILE


\* C22: when ZIP_openRead or ZIP_isDirectory has returned, with success or
\* with any error, no entry is ZIP_RESOLVING; and inside a call an entry
\* that is ZIP_RESOLVING has an activation of zip_resolve on the stack.
C22_ResolvingDoesNotLeak ==
    /\ call = Idle => \A k \in DOMAIN entries : entries[k].resolved # ZIP_RESOLVING
    /\ \A k \in DOMAIN entries :
           entries[k].resolved = ZIP_RESOLVING =>
               \E i \in 1..Len(stack) : stack[i].entry = k /\ stack[i].pc # "enter"

\* An openRead of the link "d/c" has returned that failed for want of
\* memory, and the link "a" it names is left broken with its local header
\* parsed.
C22_Witness ==
    /\ call = Idle
    /\ result.op = "openRead" /\ result.ret = 0 /\ result.err = ERR_OUT_OF_MEMORY
    /\ result.name = NameDC
    /\ entries[zip_find_entry(entries, NameA)].resolved = ZIP_BROKEN_SYMLINK
    /\ entries[zip_find_entry(entries, NameA)].offset
           # MountTable[zip_find_entry(entries, NameA)].offset


(***************************************************************************)
(* SpecFrame: every operation of the archiver on a mounted archive, each   *)
(* call made when no other is running: ZIP_openRead with the resolver,     *)
(* the queries by name, ZIP_enumerateFiles, and the operations of the open *)
(* file.                                                                   *)
(***************************************************************************)
\* The loop of ZIP_enumerateFiles run to its end.
RECURSIVE EnumerateRun(_, _, _)
EnumerateRun(q, garbage, junk) ==
    IF q.pc # "loop" THEN q
    ELSE EnumerateRun(
             EnumerateName(q, NameAt(entries, q.i, garbage),
                           q.i < Len(entries) /\ zip_entry_is_symlink(entries[q.i + 1]),
                           q.dlen + (IF q.dlen > 0 THEN 1 ELSE 0), garbage, junk),
             garbage, junk)

ZIP_enumerateFiles(dirname, omit, before, garbage, junk) ==
    EnumerateRun(
        EnumerateFrom(
            EnumerateDlen(Query("enumerate", dirname, omit), Len(dirname),
                          IF dirname = <<>> THEN before ELSE dirname[Len(dirname)]),
            zip_find_start_of_dir(entries, dirname, FALSE, garbage)),
        garbage, junk)

ZIP_getLastModTime(e) == IF e = NULL THEN -1 ELSE entries[e].last_mod_time

\* "b" is a stored link to "a", "t" is stored, and "a" names "t/." (a chain
\* that resolves) or "b" (a loop).
FrameArchives ==
    {members \in HostArchives : members[1].data \in {NameB, <<116, 47, 46>>}}
\* "" and "d"
FrameDirs == {<<>>, <<100>>}

InitFrame ==
    /\ \E members \in FrameArchives :
           /\ image = ImageOf(members)
           /\ entries = EntriesOf(members)
    /\ finfo = NoFile
    /\ hist = <<>>
    /\ seeked = FALSE
    /\ stack = <<>>
    /\ call = Idle
    /\ result = NoResult
    /\ dirq = NoQuery
    /\ heap = EmptyHeap
    /\ peer = NoFile
    /\ handles = NoHandles

FrameQuery(op, name) ==
    /\ call = Idle
    /\ LinkAnswer(op, name,
                  IF op = "exists" THEN ZIP_exists(zip_find_entry(entries, name))
                  ELSE ZIP_getLastModTime(zip_find_entry(entries, name)),
                  NoError)
    /\ UNCHANGED <<mountVars, image, entries, finfo, hist, seeked, stack, call, dirq>>

FrameEnumerated(dirname, q) ==
    IF q.pc = "crashed" THEN result' = Crashed
    ELSE LinkAnswer("enumerateFiles", dirname, Len(q.out), q.err)

FrameEnumerate(dirname, omit, before, garbage, junk) ==
    /\ call = Idle
    /\ FrameEnumerated(dirname, ZIP_enumerateFiles(dirname, omit, before, garbage, junk))
    /\ UNCHANGED <<mountVars, image, entries, finfo, hist, seeked, stack, call, dirq>>

FrameRead(objCount) ==
    /\ call = Idle
    /\ finfo.open
    /\ finfo' = ZIP_read(finfo, 1, objCount).f
    /\ LinkAnswer("read", <<>>, ZIP_read(finfo, 1, objCount).ret, NoError)
    /\ UNCHANGED <<mountVars, image, entries, hist, seeked, stack, call, dirq>>

FrameSeek(offset) ==
    /\ call = Idle
    /\ finfo.open
    /\ finfo' = ZIP_seek(finfo, offset).f
    /\ LinkAnswer("seek", <<>>, IF ZIP_seek(finfo, offset).ok THEN 1 ELSE 0, NoError)
    /\ UNCHANGED <<mountVars, image, entries, hist, seeked, stack, call, dirq>>

FrameAsk(op) ==
    /\ call = Idle
    /\ finfo.open
    /\ LinkAnswer(op, <<>>,
                  IF op = "tell" THEN ZIP_tell(finfo)
                  ELSE IF op = "eof" THEN (IF ZIP_eof(finfo) THEN 1 ELSE 0)
                  ELSE ZIP_fileLength(finfo),
                  NoError)
    /\ UNCHANGED <<mountVars, image, entries, finfo, hist, seeked, stack, call, dirq>>

NextFrame ==
    /\ result # Crashed
    /\ \/ NextResolve
       \/ \E name \in OpenNames : LinkIsSymLink(name)
       \/ \E name \in OpenNames, garbage \in GarbageReads : LinkIsDirectory(name, garbage)
       \/ \E op \in {"exists", "getLastModTime"}, name \in OpenNames : FrameQuery(op, name)
       \/ \E dirname \in FrameDirs, omit \in BOOLEAN, before \in JunkBytes,
             garbage \in GarbageReads, junk \in JunkStrings :
              FrameEnumerate(dirname, omit, before, garbage, junk)
       \/ \E objCount \in 1..2 : FrameRead(objCount)
       \/ \E offset \in {0, 2} : FrameSeek(offset)
       \/ \E op \in {"tell", "eof", "fileLength"} : FrameAsk(op)

SpecFrame == InitFrame /\ [][NextFrame]_vars

\* The fields of an entry that are set at mount for good.
Identity(e) ==
    <<e.name, e.version, e.version_needed, e.compression_method, e.crc,
      e.compressed_size, e.uncompressed_size, e.last_mod_time>>

\* C23: in every step the table keeps its length and every entry its place
\* and its name, version fields, compression_method, crc, sizes and
\* last_mod_time; a step that changes an entry (its offset, resolved or
\* symlink) is a step of the resolver inside ZIP_openRead or
\* ZIP_isDirectory; exists, getLastModTime, isSymLink, enumerateFiles, read,
\* seek, tell, eof, fileLength and close change no entry.
C23_EntriesChangeOnlyInResolution ==
    [][/\ Len(entries') = Len(entries)
       /\ \A k \in DOMAIN entries : Identity(entries'[k]) = Identity(entries[k])
       /\ entries' # entries => (call.op \in {"openRead", "isDirectory"} /\ stack # <<>>)
       /\ (call = Idle /\ call' = Idle) => entries' = entries]_vars

\* With "a" and "d/c" resolved to "t" and a file open on it, a read was made.
C23_Witness ==
    /\ result.op = "read" /\ result.ret = 2
    /\ finfo.open
    /\ entries[zip_find_entry(entries, NameDC)].symlink = zip_find_entry(entries, NameT)
    /\ entries[zip_find_entry(entries, NameA)].offset
           # MountTable[zip_find_entry(entries, NameA)].offset


(***************************************************************************)
(* SpecLocal: zip_parse_local, and ZIP_openRead of a regular file, on one  *)
(* entry whose local header was tampered with or whose file ends early.    *)
(* The file of a mounted archive can end inside a member: the members may  *)
(* lie behind the central directory (in the comment of the end record).    *)
(* No data is read in this specification, image.data is left empty.        *)
(***************************************************************************)
\* Largest file name length and extra field length of a local header here.
MaxFnameLen == 40
MaxExtraLen == 5

LocalTampers == {"none", "sig", "version", "method", "crc", "csize", "usize"}

LocalEntry(offset, method) ==
    MkEntry(NameT, ZIP_UNRESOLVED_FILE, offset, method, 3, IF method = COMPMETH_NONE THEN 3 ELSE 4)

Tampered(h, tamper) ==
    [h EXCEPT !.sig_ok = (tamper # "sig"),
              !.version_needed = IF tamper = "version" THEN @ + 1 ELSE @,
              !.compression_method = IF tamper = "method" THEN 8 - @ ELSE @,
              !.crc = IF tamper = "crc" THEN @ + 1 ELSE @,
              !.compressed_size = IF tamper = "csize" THEN @ + 1 ELSE @,
              !.uncompressed_size = IF tamper = "usize" THEN @ + 1 ELSE @]

\* Where the file may end, counted from the start of the local header:
\* each field boundary of the fixed part and one byte before it, the end of
\* the name and extra field, inside the data, and at or behind its end.
LocalEnds(fnamelen, extralen) ==
    {0, 3, 4, 5, 6, 9, 10, 17, 18, 21, 22, 25, 26, 29, 30}
        \cup {LOCAL_HEADER_FIXED + fnamelen + extralen + n : n \in {0, 2, 3, 25}}

LocalImage(at, h, len) == [len |-> len, hdr |-> (at :> h), data |-> <<>>]

\* The header lies at offset 0, at 34, or so near 2^32 that the data offset
\* wraps; the entry points at it or one byte behind it.
InitLocal ==
    /\ \E at \in {0, 34, WordMod - 36}, miss \in {0, 1}, method \in {COMPMETH_NONE, 8},
          tamper \in LocalTampers, fnamelen \in {1, MaxFnameLen},
          extralen \in {0, MaxExtraLen} :
           \E end \in LocalEnds(fnamelen, extralen) :
               /\ at + end < WordMod
               /\ entries = <<LocalEntry(at + miss, method)>>
               /\ image = LocalImage(at, Tampered(LocalHeaderOf(LocalEntry(at, method),
                                                                 fnamelen, extralen),
                                                  tamper),
                                     at + end)
    /\ finfo = NoFile
    /\ hist = <<>>
    /\ seeked = FALSE
    /\ stack = <<>>
    /\ call = Idle
    /\ result = NoResult
    /\ dirq = NoQuery
    /\ heap = EmptyHeap
    /\ peer = NoFile
    /\ handles = NoHandles

LocalDid(op, ok, err) ==
    result' = [op |-> op, ok |-> ok, err |-> err, pre |-> entries[1]]

\* zip_parse_local(in, entry)
LocalParse ==
    /\ result = NoResult
    /\ entries' = <<zip_parse_local(entries[1]).entry>>
    /\ LocalDid("parseLocal", zip_parse_local(entries[1]).ok, zip_parse_local(entries[1]).err)
    /\ UNCHANGED <<mountVars, image, finfo, hist, seeked, stack, call, dirq>>

\* ZIP_openRead of the regular file: zip_resolve, then the seek to the data
\* in zip_get_file_handle, p being what zip_parse_local returned.
LocalOpened(p, seekOk) ==
    /\ entries' = <<[p.entry EXCEPT !.resolved =
                        ResolvedAs(ZIP_UNRESOLVED_FILE, IF p.ok THEN 1 ELSE 0,
                                   ZIP_RESOLVING)]>>
    /\ finfo' = IF p.ok /\ seekOk
                THEN [OpenFileOn(1) EXCEPT !.hpos = p.entry.offset]
                ELSE NoFile
    /\ heap' = IF p.ok /\ seekOk
               THEN OpenReadHeap(heap, 1, p.entry.compression_method, "none")
               ELSE Free(Malloc(heap, BlockHandle(1)), BlockHandle(1))
    /\ LocalDid("openRead", p.ok /\ seekOk, p.err)

LocalOpenRead ==
    /\ result = NoResult
    /\ LocalOpened(zip_parse_local(entries[1]),
                   PlatformSeek(zip_parse_local(entries[1]).entry.offset))
    /\ UNCHANGED <<peer, handles, image, hist, seeked, stack, call, dirq>>

NextLocal ==
    \/ LocalParse
    \/ LocalOpenRead

SpecLocal == InitLocal /\ [][NextLocal]_vars

\* A field of the local header that the file holds (its last byte is at
\* header offset upTo - 1) differs from the entry.
LocalMismatch(e, h) ==
    \/ LocalGot(e, 4) /\ ~h.sig_ok
    \/ LocalGot(e, 6) /\ h.version_needed # e.version_needed
    \/ LocalGot(e, 10) /\ h.compression_method # e.compression_method
    \/ LocalGot(e, 18) /\ h.crc # e.crc
    \/ LocalGot(e, 22) /\ h.compressed_size # e.compressed_size
    \/ LocalGot(e, 26) /\ h.uncompressed_size # e.uncompressed_size

LocalParsed(e, h) ==
    /\ result.ok <=> (LocalGot(e, LOCAL_HEADER_FIXED) /\ ~LocalMismatch(e, h))
    /\ ~result.ok => entries[1] = e
    /\ (~result.ok /\ LocalMismatch(e, h)) => result.err = ERR_CORRUPTED
    /\ result.ok =>
           entries[1] = [e EXCEPT !.offset =
                            U32(e.offset + LOCAL_HEADER_FIXED + h.fnamelen + h.extralen)]

\* C24: zip_parse_local succeeds exactly when the 30 bytes of the local
\* header are in the file, the signature is PK\003\004 and version_needed,
\* compression_method, crc, compressed_size and uncompressed_size equal the
\* entry's; when it fails the entry is as it was, and the error is
\* ERR_CORRUPTED if a field the file holds differs; when it succeeds
\* entry->offset has grown by 30 + fnamelen + extralen (a PHYSFS_uint32 sum)
\* and nothing else has changed.
C24_ParseLocalValidates ==
    result.op = "parseLocal" => LocalParsed(result.pre, LocalHeaderAt(result.pre.offset))

\* A header with a long name and an extra field was accepted.
C24_Witness ==
    /\ result.op = "parseLocal" /\ result.ok
    /\ entries[1].offset = result.pre.offset + LOCAL_HEADER_FIXED + MaxFnameLen + MaxExtraLen


\* C25: an entry that is ZIP_RESOLVED has its data inside the archive file,
\* offset + compressed_size <= length of the file, and so has the entry of
\* every open file.
C25_ResolvedDataInFile ==
    /\ \A k \in DOMAIN entries :
           entries[k].resolved = ZIP_RESOLVED =>
               entries[k].offset + entries[k].compressed_size <= image.len
    /\ finfo.open =>
           entries[finfo.entry].offset + entries[finfo.entry].compressed_size <= image.len


(***************************************************************************)
(* SpecSort: zip_sort_entries on a table of 1..MaxSortLen entries, loaded  *)
(* in any order, names repeated or not.                                    *)
(***************************************************************************)
MaxSortLen == 6
\* "a", "ab", "b"
SortNames == {<<97>>, <<97, 98>>, <<98>>}

\* The i-th record of the central directory, named name.
SortEntry(name, i) == MkEntry(name, ZIP_UNRESOLVED_FILE, i, COMPMETH_NONE, 0, 0)

InitSort ==
    /\ \E n \in 1..MaxSortLen :
           \E names \in [1..n -> SortNames] :
               entries = [i \in 1..n |-> SortEntry(names[i], i)]
    /\ image = [len |-> 0, hdr |-> <<>>, data |-> <<>>]
    /\ finfo = NoFile
    /\ hist = <<>>
    /\ seeked = FALSE
    /\ stack = <<>>
    /\ call = Idle
    /\ result = NoResult
    /\ dirq = NoQuery
    /\ heap = EmptyHeap
    /\ peer = NoFile
    /\ handles = NoHandles

SortEntries ==
    /\ result = NoResult
    /\ entries' = zip_sort_entries(entries, Len(entries)).a
    /\ result' = [op |-> "sort", ub |-> zip_sort_entries(entries, Len(entries)).ub,
                  pre |-> entries]
    /\ UNCHANGED <<mountVars, image, finfo, hist, seeked, stack, call, dirq>>

NextSort == SortEntries

SpecSort == InitSort /\ [][NextSort]_vars

\* C26: the table zip_sort_entries leaves holds the records that were
\* loaded, each once, ordered non-decreasingly by strcmp of their names,
\* for 1..MaxSortLen records (below, at and above ZIP_QUICKSORT_THRESHOLD)
\* in every order.
C26_SortedPermutation ==
    result.op = "sort" =>
        /\ ~result.ub
        /\ Len(entries) = Len(result.pre)
        /\ {entries[i] : i \in DOMAIN entries} = {result.pre[i] : i \in DOMAIN result.pre}
        /\ \A i \in 1..(Len(entries) - 1) : Strcmp(entries[i].name, entries[i + 1].name) <= 0

\* Six records loaded in descending order with a repeated name were sorted.
C26_Witness ==
    /\ result.op = "sort"
    /\ Len(entries) = MaxSortLen
    /\ Len(entries) > ZIP_QUICKSORT_THRESHOLD + 1
    /\ \A i \in 1..(Len(entries) - 1) :
           Strcmp(result.pre[i].name, result.pre[i + 1].name) >= 0
    /\ result.pre[1].name # result.pre[Len(entries)].name
    /\ entries # result.pre


(***************************************************************************)
(* SpecFind: zip_find_start_of_dir on a sorted table. The tables are the   *)
(* sub-lists of FindPool, the empty one (an archive with no entry)         *)
(* included.                                                               *)
(***************************************************************************)
\* "d", "d-x", "d.txt", "d/", "d/a", "d/b", "d0", "e": in strcmp order.
FindPool ==
    <<<<100>>, <<100, 45, 120>>, <<100, 46, 116, 120, 116>>, <<100, 47>>,
      <<100, 47, 97>>, <<100, 47, 98>>, <<100, 48>>, <<101>>>>
\* "", "d", "d/", "e", "f"
FindPaths == {<<>>, <<100>>, <<100, 47>>, <<101>>, <<102>>}

RECURSIVE Picked(_, _, _)
Picked(pool, mask, i) ==
    IF i > Len(pool) THEN <<>>
    ELSE (IF i \in mask THEN <<pool[i]>> ELSE <<>>) \o Picked(pool, mask, i + 1)

FindTable(names) == [i \in 1..Len(names) |-> SortEntry(names[i], i)]

InitFind ==
    /\ \E mask \in SUBSET (1..Len(FindPool)) : entries = FindTable(Picked(FindPool, mask, 1))
    /\ image = [len |-> 0, hdr |-> <<>>, data |-> <<>>]
    /\ finfo = NoFile
    /\ hist = <<>>
    /\ seeked = FALSE
    /\ stack = <<>>
    /\ call = Idle
    /\ result = NoResult
    /\ dirq = NoQuery
    /\ heap = EmptyHeap
    /\ peer = NoFile
    /\ handles = NoHandles

FindFound(path, stop, r) ==
    result' = [op |-> "findStart", path |-> path, stop |-> stop, ret |-> r.ret,
               ub |-> r.ub, fault |-> r.fault]

FindStart(path, stop, garbage) ==
    /\ result = NoResult
    /\ FindFound(path, stop, zip_find_start_of_dir(entries, path, stop, garbage))
    /\ UNCHANGED <<mountVars, image, entries, finfo, hist, seeked, stack, call, dirq>>

NextFind ==
    \E path \in FindPaths, stop \in BOOLEAN, garbage \in GarbageReads :
        FindStart(path, stop, garbage)

SpecFind == InitFind /\ [][NextFind]_vars

\* The indices (0-based) of the entries that lie under dir.
IndicesUnder(dir) == {i \in 0..(Len(entries) - 1) : Under(entries[i + 1].name, dir)}

\* C27: zip_find_start_of_dir returns 0 for the root path; for any other
\* path it returns -1 exactly when no entry lies under the path (its
\* trailing '/' dropped), else the index of an entry under it, the smallest
\* one when stop_on_first_find is false.
C27_FindStartOfDir ==
    (result.op = "findStart" /\ ~result.fault) =>
        IF result.path = <<>> THEN result.ret = 0
        ELSE /\ (result.ret = -1) <=> (IndicesUnder(Trimmed(result.path)) = {})
             /\ result.ret # -1 => result.ret \in IndicesUnder(Trimmed(result.path))
             /\ (result.ret # -1 /\ ~result.stop) =>
                    \A i \in IndicesUnder(Trimmed(result.path)) : result.ret <= i

\* C28: zip_find_start_of_dir reads no entry outside the table.
C28_FindStartReadsInTable ==
    result.op = "findStart" => (~result.ub /\ ~result.fault)


(***************************************************************************)
(* SpecEnum: ZIP_enumerateFiles, one turn of its loop at a time, on the    *)
(* tables of SpecFind and the archives of SpecDir.                         *)
(***************************************************************************)
InitEnum ==
    /\ \/ \E mask \in SUBSET (1..Len(FindPool)) :
              /\ entries = FindTable(Picked(FindPool, mask, 1))
              /\ image = [len |-> 0, hdr |-> <<>>, data |-> <<>>]
       \/ \E members \in DirArchives :
              /\ image = ImageOf(members)
              /\ entries = EntriesOf(members)
    /\ finfo = NoFile
    /\ hist = <<>>
    /\ seeked = FALSE
    /\ stack = <<>>
    /\ call = Idle
    /\ result = NoResult
    /\ dirq = NoQuery
    /\ heap = EmptyHeap
    /\ peer = NoFile
    /\ handles = NoHandles

NextEnum ==
    \/ \E dirname \in FindPaths \cup DirNames, omit \in BOOLEAN, before \in JunkBytes,
          garbage \in GarbageReads :
           /\ dirq.op = "none"
           /\ EnumerateCall(dirname, omit, before, garbage)
    \/ \E garbage \in GarbageReads, junk \in JunkStrings : EnumerateStep(garbage, junk)

SpecEnum == InitEnum /\ [][NextEnum]_vars

\* The entry the next turn of the loop reads is in the table, and add_file
\* points into its name, at most at the terminator.
ScanInTable(q) ==
    /\ q.i >= 0
    /\ q.i < Len(entries)
    /\ q.dlen + (IF q.dlen > 0 THEN 1 ELSE 0) <= Len(entries[q.i + 1].name)

\* C29: no turn of the scan of ZIP_enumerateFiles dies in a read outside the
\* table, and none leaves the scan about to read entries[i] with i outside
\* [0, entryCount - 1] or a name past its terminator: the scan has stopped
\* once i = entryCount or the entry is not under the directory.
C29_EnumerateScanInBounds ==
    [][(dirq.op = "enumerate" /\ dirq.pc = "loop") =>
           /\ dirq'.pc # "crashed"
           /\ dirq'.pc = "loop" => ScanInTable(dirq')]_vars


(***************************************************************************)
(* SpecExpand: zip_expand_symlink_path on a target string, one pass of its *)
(* loop at a time. The targets are the strings of up to MaxTargetLen bytes *)
(* over 'a', '.' and '/'.                                                  *)
(***************************************************************************)
MaxTargetLen == 4
TargetBytes == {97, DOT, SLASH}
ExpandTargets == UNION {[1..n -> TargetBytes] : n \in 0..MaxTargetLen}

InitExpand ==
    /\ \E target \in ExpandTargets :
           /\ stack = <<[Frame(0) EXCEPT !.path = target \o <<NUL>>, !.pc = "strchr"]>>
           /\ result = [op |-> "expand", target |-> target]
    /\ image = [len |-> 0, hdr |-> <<>>, data |-> <<>>]
    /\ entries = <<>>
    /\ finfo = NoFile
    /\ hist = <<>>
    /\ seeked = FALSE
    /\ call = Idle
    /\ dirq = NoQuery
    /\ heap = EmptyHeap
    /\ peer = NoFile
    /\ handles = NoHandles

NextExpand ==
    \/ ExpandStrchr
    \/ ExpandBranch

SpecExpand == InitExpand /\ [][NextExpand]_vars

\* The segments of s, which '/' separates; cur is the segment being read.
RECURSIVE Segments(_, _)
Segments(s, cur) ==
    IF s = <<>> THEN <<cur>>
    ELSE IF Head(s) = SLASH THEN <<cur>> \o Segments(Tail(s), <<>>)
    ELSE Segments(Tail(s), Append(cur, Head(s)))

RECURSIVE Joined(_)
Joined(segs) ==
    IF segs = <<>> THEN <<>>
    ELSE IF Len(segs) = 1 THEN segs[1]
    ELSE segs[1] \o <<SLASH>> \o Joined(Tail(segs))

\* The reference walk: kept holds the segments kept so far.
RECURSIVE SegmentWalk(_, _)
SegmentWalk(segs, kept) ==
    IF segs = <<>> THEN Joined(kept)
    ELSE IF Head(segs) = <<DOT>> THEN SegmentWalk(Tail(segs), kept)
    ELSE IF Head(segs) = <<DOT, DOT>>
    THEN IF kept = <<>> THEN <<>>
         ELSE SegmentWalk(Tail(segs), SubSeq(kept, 1, Len(kept) - 1))
    ELSE SegmentWalk(Tail(segs), Append(kept, Head(segs)))

Normalised(target) == SegmentWalk(Segments(target, <<>>), <<>>)

\* C30: when zip_expand_symlink_path returns, the path is the reference
\* segment walk of the target: each '.' segment removed, each '..' segment
\* removed with the segment before it, a '..' with no segment before it
\* leaving the empty path, every other segment kept.
C30_ExpandIsSegmentWalk ==
    (result.op = "expand" /\ stack # <<>> /\ stack[1].pc = "find") =>
        CString(stack[1].path, 0) = Normalised(result.target)


(***************************************************************************)
(* The position of an open file, checked under SpecFile.                   *)
(***************************************************************************)
\* The read recorded as rec was issued with the whole entry consumed.
ReadAtEnd(rec) ==
    /\ rec.op = "read"
    /\ rec.a * rec.b > 0
    /\ rec.pre.uncompressed_position >= ZIP_fileLength(rec.pre)

\* The bytes of the archive a read of a stored entry fetched lie in the
\* data of the entry.
StoreReadInExtent(rec) ==
    (/\ rec.op = "read" /\ rec.ret > 0
     /\ entries[rec.pre.entry].compression_method = COMPMETH_NONE) =>
        /\ rec.pre.hpos >= entries[rec.pre.entry].offset
        /\ rec.pre.hpos + rec.ret * rec.a
               <= entries[rec.pre.entry].offset + ZIP_fileLength(rec.pre)

\* C31: after any reads and seeks on an open file uncompressed_position <=
\* uncompressed_size; a read issued with the whole entry consumed returns 0
\* and sets ERR_PAST_EOF; a read of a stored entry fetches no byte of the
\* archive outside the data of the entry.
C31_PositionStaysInEntry ==
    finfo.open =>
        /\ finfo.uncompressed_position <= ZIP_fileLength(finfo)
        /\ hist # <<>> =>
               /\ ReadAtEnd(Last) => (Last.ret = 0 /\ Last.err = ERR_PAST_EOF)
               /\ StoreReadInExtent(Last)


(***************************************************************************)
(* Resolution happens once, checked under SpecLink.                        *)
(***************************************************************************)
UnresolvedStates == {ZIP_UNRESOLVED_FILE, ZIP_UNRESOLVED_SYMLINK}

\* C32: no step changes the offset, the resolved state or the symlink of an
\* entry that is ZIP_RESOLVED; a step that changes the offset of an entry
\* finds the entry unresolved and leaves it not unresolved, and no entry
\* becomes unresolved again, so each offset is advanced at most once; and
\* every ZIP_openRead that returns a file has the handle at the offset of
\* its entry, which is ZIP_RESOLVED, so a second open of a name starts where
\* the first did.
C32_ResolvedOnce ==
    [][/\ \A k \in DOMAIN entries :
              /\ entries[k].resolved = ZIP_RESOLVED => entries'[k] = entries[k]
              /\ entries'[k].offset # entries[k].offset =>
                     /\ entries[k].resolved \in UnresolvedStates
                     /\ entries'[k].resolved \notin UnresolvedStates
              /\ entries'[k].resolved \in UnresolvedStates => entries'[k] = entries[k]
       /\ (finfo'.open /\ ~finfo.open) =>
              /\ entries'[finfo'.entry].resolved = ZIP_RESOLVED
              /\ finfo'.hpos = entries'[finfo'.entry].offset]_vars

\* The link "a" was opened a second time, being ZIP_RESOLVED since an
\* earlier call, and the file is at the data of the entry it ends in.
C32_Witness ==
    /\ result.op = "openRead" /\ result.ret = 1 /\ result.name = NameA
    /\ result.was = ZIP_RESOLVED
    /\ finfo.open
    /\ entries[zip_find_entry(entries, NameA)].symlink = finfo.entry
    /\ finfo.hpos = entries[finfo.entry].offset
    /\ finfo.hpos \notin DOMAIN image.hdr


(***************************************************************************)
(* The sort at the end of a mount, checked under SpecMount.                *)
(***************************************************************************)
\* C33: zip_sort_entries, and with it ZIP_openArchive, reads and writes no
\* entry slot outside entries[0 .. max-1], for an archive whose end record
\* declares zero entries too: the mount is not stopped in the sort and
\* returns without having touched memory that is not the table's.
C33_SortStaysInTable ==
    /\ call # Crashed
    /\ result.op = "openArchive" => ~result.ub

=============================================================================
